---- MODULE Spec2Model ----
(***************************************************************************)
(* The protocol-simulation engine of the Qu-missions dashboard (the App    *)
(* component of src/README.md, lines 657-1388): the React state of the     *)
(* component, the two asynchronous handlers runInitialization and          *)
(* signAndSend cut at their awaits, and the synchronous button and input   *)
(* handlers.  One action is one handler segment between two awaits: React  *)
(* commits the state updates of such a segment together.                   *)
(*                                                                         *)
(* Conventions.  A JavaScript value that may be null is a sequence of      *)
(* length 0 (null) or 1 (the value).  Bits are 0/1, bases "Z"/"X".  Arrays *)
(* are sequences (index i of the code is position i+1).  A text built by a *)
(* template literal is the tuple of its template and its arguments.        *)
(* Math.random() is a draw u from UnitDraws, standing for u/100; noise     *)
(* levels are percentages.  The QBER errors/length is the record           *)
(* [num, den], compared by cross-multiplication.  Timestamps and the       *)
(* lengths of the pacing delays are not modelled.  The two Channel widgets *)
(* are separate components that the engine only writes to: classicalOut    *)
(* and quantumOut hold the packets the current step hands to them.         *)
(***************************************************************************)
EXTENDS Integers, Sequences, FiniteSets, TLC

\* ------------------------------------------------------------------ bounds
\* Largest pulse count N of a run of the whole engine (Spec); runs with more
\* pulses are not started.
MaxN == 1
\* Largest pulse count N of a run taken alone (DataSpec).
MaxDataN == 2
\* The event log keeps its MaxLogs most recent entries.
MaxLogs == 3
\* Leading positions of a drawn bit-string (key, phi token) that vary freely.
MaxFreeBits == 1
\* Packets in flight on one channel at a time.
MaxPackets == 2
\* Pulses of a run of the earlier flow (the code's N = 12 is cut to this).
MaxDemoN == 1
\* Activations of runQKDDemo in flight at a time.
MaxDemoRuns == 2

\* ------------------------------------------------------- program constants
DefaultQkdN == 5
DefaultPulseIntervalMs == 1000
DefaultSampleSize == 2
DefaultNoiseIndex == 10
MinPulseInterval == 100
QberThresholdPct == 45
TamperFlipPct == 50
HalfPct == 50
PhiTokenLen == 6
SignPacketDuration == 2500
DefaultPacketDuration == 2000
DemoPulses == 12
DemoSampleSize == 4
DemoKeyBytes == 8

\* --------------------------------------------------------------- inputs
\* Values Math.random() is taken to return, in hundredths.
UnitDraws == {0, 50}
\* Values Math.random() is taken to return where the draw only ends up in a
\* label (phi, its token, the preimage of the signed message).
LabelDraws == {50}
\* Values the user types into the three numeric fields.
QkdNInputs == 1..MaxN
PulseIntervalInputs == {50}
SampleSizeInputs == {-1}
\* Values the user drags the noise slider to, in percent.
NoiseInputs == {100}

VARIABLES
    running, qkdRunning, qkdDone,
    channelMode, noiseIndex, noiseLocked,
    aliceState, bobState, sifted, revealedSample, qber, sharedKey,
    qkdN, pulseIntervalMs, qberSampleSize,
    tampering, signRunning, currentStatus, logs,
    classicalOut, quantumOut,
    run, sign

vars == << running, qkdRunning, qkdDone, channelMode, noiseIndex, noiseLocked,
           aliceState, bobState, sifted, revealedSample, qber, sharedKey,
           qkdN, pulseIntervalMs, qberSampleSize, tampering, signRunning,
           currentStatus, logs, classicalOut, quantumOut, run, sign >>

\* the React state other than the parameters and the channel widgets
engineVars == << qkdRunning, qkdDone, noiseLocked, aliceState, bobState, sifted,
                 revealedSample, qber, sharedKey, tampering, signRunning,
                 currentStatus, logs >>
paramVars == << channelMode, noiseIndex, qkdN, pulseIntervalMs, qberSampleSize >>
channelVars == << classicalOut, quantumOut >>

\* ------------------------------------------------------------- helpers
Null == << >>
Some(v) == << v >>
IsNull(o) == Len(o) = 0
Val(o) == o[1]

Max(a, b) == IF a >= b THEN a ELSE b
Min(a, b) == IF a <= b THEN a ELSE b

\* randBit(): Math.random() < 0.5 ? 0 : 1
randBit(u) == IF u < HalfPct THEN 0 ELSE 1
\* randBasis(): Math.random() < 0.5 ? 'Z' : 'X'
randBasis(u) == IF u < HalfPct THEN "Z" ELSE "X"

\* parseInt(x, 10) || dflt, for an integer x: 0 is falsy
ParseIntOr(x, dflt) == IF x = 0 THEN dflt ELSE x
\* const N = Math.max(1, parseInt(qkdN, 10) || 5)
ClampN(x) == Max(1, ParseIntOr(x, DefaultQkdN))
\* const pulseInterval = Math.max(100, parseInt(pulseIntervalMs, 10) || 1000)
ClampPulseInterval(x) == Max(MinPulseInterval, ParseIntOr(x, DefaultPulseIntervalMs))
\* const sampleSize = Math.max(0, parseInt(qberSampleSize, 10) || 2)
ClampSampleSize(x) == Max(0, ParseIntOr(x, DefaultSampleSize))
\* const noise = channelMode === 'noisy' ? noiseIndex : 0
EffectiveNoise(mode, idx) == IF mode = "noisy" THEN idx ELSE 0

\* addLog: setLogs(prev => [...prev, entry]); the log keeps its last MaxLogs entries
addLog(l, text) ==
    LET s == Append(l, text)
    IN  IF Len(s) > MaxLogs THEN SubSeq(s, Len(s) - MaxLogs + 1, Len(s)) ELSE s

RECURSIVE addLogs(_, _)
addLogs(l, texts) ==
    IF texts = << >> THEN l ELSE addLogs(addLog(l, Head(texts)), Tail(texts))

\* The log lines updateStatus writes when shouldLog is set.
StatusLogLines(text, fakeDetails) ==
    IF fakeDetails.type = "phi"
        THEN << <<"Selected phi - encrypted phi", fakeDetails.rawPhi, fakeDetails.encrypted>> >>
    ELSE IF fakeDetails.type = "preP"
        THEN << <<"Data collected (tons of CO2)", fakeDetails.preimage>>,
                <<"Encoded data into |P> (simulated)">> >>
    ELSE IF fakeDetails.type = "key"
        THEN << <<"Simulated shared key established (length bits)", fakeDetails.length>> >>
    ELSE << text >>

NoDetails == [type |-> "none"]

\* Fault injection for C29: every classical packet dropped.
sendClassicalDropped(mounted, content, sender, duration) == << >>

\* sendClassical: the packet handed to the classical channel widget; dropped
\* when the widget is not mounted (menu view: classicalCh.current is unset)
sendClassical(mounted, content, sender, duration) ==
    IF ~mounted THEN << >>
    ELSE << [ content |-> content, color |-> "#1976d2",
              start |-> IF sender = "alice" THEN "left" ELSE "right",
              duration |-> duration ] >>

\* sendQuantum
sendQuantum(mounted, content, duration) ==
    IF ~mounted THEN << >>
    ELSE << [ content |-> content, color |-> "#9c27b0",
              start |-> "left", duration |-> duration ] >>

\* No packet is handed to either channel.
NoPackets == classicalOut' = << >> /\ quantumOut' = << >>

IdleAlice == [bits |-> << >>, bases |-> << >>, text |-> <<"idle">>,
              memoryVisible |-> TRUE, phi |-> << >>]
IdleBob == [bases |-> << >>, results |-> << >>, text |-> <<"idle">>,
            memoryVisible |-> TRUE, phi |-> << >>]
EmptySifted == [indices |-> << >>, aliceBits |-> << >>, bobBits |-> << >>]

\* The locals of an activation of runInitialization; pc "idle": no activation.
\* draws is the sequence of the values Math.random() returned to the activation
\* up to the end of the measurement loop, kept when recording is set.
IdleRun ==
    [ pc |-> "idle", noise |-> 0, N |-> 0, pulseInterval |-> 0, sampleSize |-> 0,
      tampering |-> FALSE, aliceBits |-> << >>, aliceBases |-> << >>,
      bobBases |-> << >>, bobResults |-> << >>, tamperIntroducedCount |-> 0,
      i |-> 0, keepIndices |-> << >>, aBitsSifted |-> << >>, bBitsSifted |-> << >>,
      sampleReveal |-> << >>, phiEncrypted |-> << >>,
      recording |-> FALSE, draws |-> << >> ]

\* The locals of an activation of signAndSend.
IdleSign == [pc |-> "idle", tampering |-> FALSE]

Init ==
    /\ running = FALSE
    /\ qkdRunning = FALSE
    /\ qkdDone = FALSE
    /\ channelMode = "null"
    /\ noiseIndex = DefaultNoiseIndex
    /\ noiseLocked = FALSE
    /\ aliceState = IdleAlice
    /\ bobState = IdleBob
    /\ sifted = EmptySifted
    /\ revealedSample = << >>
    /\ qber = Null
    /\ sharedKey = Null
    /\ qkdN = DefaultQkdN
    /\ pulseIntervalMs = DefaultPulseIntervalMs
    /\ qberSampleSize = DefaultSampleSize
    /\ tampering = FALSE
    /\ signRunning = FALSE
    /\ currentStatus = <<"Not started">>
    /\ logs = << >>
    /\ classicalOut = << >>
    /\ quantumOut = << >>
    /\ run = IdleRun
    /\ sign = IdleSign

\* ------------------------------------------------- menu, stop, parameters
\* "Start Simulation (Perfect channel)" of the menu view
EnterPerfect ==
    /\ ~running
    /\ channelMode' = "perfect"
    /\ noiseIndex' = 0
    /\ running' = TRUE
    /\ tampering' = FALSE
    /\ UNCHANGED << qkdRunning, qkdDone, noiseLocked, aliceState, bobState, sifted,
                    revealedSample, qber, sharedKey, qkdN, pulseIntervalMs,
                    qberSampleSize, signRunning, currentStatus, logs, run, sign >>
    /\ NoPackets

\* "Start Simulation (Noisy channel)" of the menu view
EnterNoisy ==
    /\ ~running
    /\ channelMode' = "noisy"
    /\ noiseIndex' = DefaultNoiseIndex
    /\ running' = TRUE
    /\ tampering' = FALSE
    /\ UNCHANGED << qkdRunning, qkdDone, noiseLocked, aliceState, bobState, sifted,
                    revealedSample, qber, sharedKey, qkdN, pulseIntervalMs,
                    qberSampleSize, signRunning, currentStatus, logs, run, sign >>
    /\ NoPackets

\* Fault injection for C14: the Stop button rendered in the menu view too.
StopAlwaysRendered == TRUE

\* {running && ( <Button ...>Stop</Button> )}
StopRendered == running

\* Fault injection for C12: the Stop button disabled during a signature too.
StopDisabledInFlight == qkdRunning \/ signRunning

\* disabled={qkdRunning}
StopDisabled == qkdRunning

\* The Stop button: rendered while running, disabled while qkdRunning.  Leaving
\* the simulation view unmounts the two channel widgets.
Stop ==
    /\ StopRendered
    /\ ~StopDisabled
    /\ running' = FALSE
    /\ qkdRunning' = FALSE
    /\ qkdDone' = FALSE
    /\ channelMode' = "null"
    /\ noiseLocked' = FALSE
    /\ noiseIndex' = DefaultNoiseIndex
    /\ sharedKey' = Null
    /\ qber' = Null
    /\ aliceState' = IdleAlice
    /\ bobState' = IdleBob
    /\ sifted' = EmptySifted
    /\ revealedSample' = << >>
    /\ currentStatus' = <<"Stopped">>
    /\ logs' = << >>
    /\ tampering' = FALSE
    /\ classicalOut' = << >>
    /\ quantumOut' = << >>
    /\ UNCHANGED << qkdN, pulseIntervalMs, qberSampleSize, signRunning, run, sign >>

\* Fault injection for C17: the active-run test dropped from the guard.
handleTamperClickIgnoresRun == ~running \/ tampering \/ signRunning

\* if (!running || tampering || qkdRunning || signRunning) return;   (the
\* button is disabled on the same condition)
handleTamperClickReturns == ~running \/ tampering \/ qkdRunning \/ signRunning

\* handleTamperClick
handleTamperClick ==
    /\ ~handleTamperClickReturns
    /\ tampering' = TRUE
    /\ currentStatus' = <<"Eavesdropping...">>
    /\ logs' = addLogs(logs, << <<"Eavesdropping...">>,
                               <<"Tamper/Eavesdrop engaged - attacker active">> >>)
    /\ UNCHANGED << running, qkdRunning, qkdDone, channelMode, noiseIndex, noiseLocked,
                    aliceState, bobState, sifted, revealedSample, qber, sharedKey,
                    qkdN, pulseIntervalMs, qberSampleSize, signRunning, run, sign >>
    /\ NoPackets

\* The noise slider: shown in noisy mode, disabled while noiseLocked or qkdRunning
SetNoiseIndex ==
    /\ running /\ channelMode = "noisy"
    /\ ~(noiseLocked \/ qkdRunning)
    /\ \E v \in NoiseInputs : noiseIndex' = v
    /\ UNCHANGED << running, channelMode, qkdN, pulseIntervalMs, qberSampleSize,
                    engineVars, run, sign >>
    /\ NoPackets

\* Fault injection for C15: the numeric fields never disabled.
ParamFieldsNeverDisabled == FALSE

\* disabled={qkdRunning} of the three numeric fields
ParamFieldsDisabled == qkdRunning

\* The three numeric fields: disabled while qkdRunning
SetPulseIntervalMs ==
    /\ running /\ ~ParamFieldsDisabled
    /\ \E v \in PulseIntervalInputs : pulseIntervalMs' = v
    /\ UNCHANGED << running, channelMode, noiseIndex, qkdN, qberSampleSize,
                    engineVars, run, sign >>
    /\ NoPackets

SetQkdN ==
    /\ running /\ ~ParamFieldsDisabled
    /\ \E v \in QkdNInputs : qkdN' = v
    /\ UNCHANGED << running, channelMode, noiseIndex, pulseIntervalMs, qberSampleSize,
                    engineVars, run, sign >>
    /\ NoPackets

SetQberSampleSize ==
    /\ running /\ ~ParamFieldsDisabled
    /\ \E v \in SampleSizeInputs : qberSampleSize' = v
    /\ UNCHANGED << running, channelMode, noiseIndex, qkdN, pulseIntervalMs,
                    engineVars, run, sign >>
    /\ NoPackets

\* ------------------------------------------------ runInitialization, pure parts
\* The label of the qubit packet: | 0 >, | 1 >, | + > or | - >
QubitContent(basis, bit) ==
    <<"qubit", IF basis = "Z" THEN (IF bit = 0 THEN "0" ELSE "1")
               ELSE (IF bit = 0 THEN "+" ELSE "-")>>

\* Fault injection for C5: the basis test inverted.
MeasureOutcomeInverted(bB, aBasis, aBit, noise, u1, u2) ==
    IF u1 < noise THEN randBit(u2)
    ELSE IF bB # aBasis THEN aBit
    ELSE randBit(u2)

\* The noise model of one measurement: u1 is the draw compared with the noise
\* level, u2 the draw of the random bit (made only on the branches that use it).
MeasureOutcome(bB, aBasis, aBit, noise, u1, u2) ==
    IF u1 < noise THEN randBit(u2)
    ELSE IF bB = aBasis THEN aBit
    ELSE randBit(u2)

\* Fault injection for C24: the flip test made without regard to tampering.
TamperFlipsAlways(isTampering, u3) == u3 < TamperFlipPct

\* The tamper layer: with tampering, a draw below 0.5 flips the outcome.
TamperFlips(isTampering, u3) == isTampering /\ u3 < TamperFlipPct

\* Fault injection for C20: the tamper layer leaves the outcome alone.
TamperOutcomeKept(y, isTampering, u3) == y

\* y = 1 - y on a flip
TamperOutcome(y, isTampering, u3) == IF TamperFlips(isTampering, u3) THEN 1 - y ELSE y

\* The sifting loop, from index i (0-based) on.
RECURSIVE SiftFrom(_, _, _, _, _, _, _)
SiftFrom(i, N, aliceBits, aliceBases, bobBases, bobResults, acc) ==
    IF i >= N THEN acc
    ELSE SiftFrom(i + 1, N, aliceBits, aliceBases, bobBases, bobResults,
            IF aliceBases[i + 1] = bobBases[i + 1]
            THEN [ indices   |-> Append(acc.indices, i),
                   aliceBits |-> Append(acc.aliceBits, aliceBits[i + 1]),
                   bobBits   |-> Append(acc.bobBits, bobResults[i + 1]) ]
            ELSE acc)

\* Fault injection for C4: the sifting loop started at index 1.
SiftFromOne(N, aliceBits, aliceBases, bobBases, bobResults) ==
    SiftFrom(1, N, aliceBits, aliceBases, bobBases, bobResults, EmptySifted)

\* keepIndices, aBitsSifted, bBitsSifted as the record handed to setSifted
Sift(N, aliceBits, aliceBases, bobBases, bobResults) ==
    SiftFrom(0, N, aliceBits, aliceBases, bobBases, bobResults, EmptySifted)

\* Fault injection for C7: the sample taken from the end of the sifted set.
SampleIndicesTail(keepIndices, sampleSize) ==
    SubSeq(keepIndices, Len(keepIndices) - Min(sampleSize, Len(keepIndices)) + 1,
           Len(keepIndices))

\* keepIndices.slice(0, sampleSize)
SampleIndices(keepIndices, sampleSize) ==
    SubSeq(keepIndices, 1, Min(sampleSize, Len(keepIndices)))

\* sampleIndices.map(i => ({ index: i, alice: aliceBits[i], bob: bobResults[i] }))
SampleReveal(keepIndices, sampleSize, aliceBits, bobResults) ==
    LET idx == SampleIndices(keepIndices, sampleSize)
    IN  [k \in 1..Len(idx) |->
            [index |-> idx[k], alice |-> aliceBits[idx[k] + 1], bob |-> bobResults[idx[k] + 1]]]

\* sampleReveal.filter(s => s.alice !== s.bob).length
SampleErrors(sampleReveal) ==
    Cardinality({k \in 1..Len(sampleReveal) : sampleReveal[k].alice # sampleReveal[k].bob})

\* Fault injection for C6: the agreeing pairs counted instead of the mismatches.
SampleQberMatches(sampleReveal) ==
    IF Len(sampleReveal) > 0
    THEN [num |-> Len(sampleReveal) - SampleErrors(sampleReveal), den |-> Len(sampleReveal)]
    ELSE [num |-> 0, den |-> 1]

\* const q = sampleReveal.length > 0 ? (errors / sampleReveal.length) : 0
SampleQber(sampleReveal) ==
    IF Len(sampleReveal) > 0
    THEN [num |-> SampleErrors(sampleReveal), den |-> Len(sampleReveal)]
    ELSE [num |-> 0, den |-> 1]

ZeroQber == [num |-> 0, den |-> 1]

\* Fault injection for C8: the threshold at one half.
QberLowHalf(q) == 100 * q.num <= HalfPct * q.den

\* q <= 0.45
QberLow(q) == 100 * q.num <= QberThresholdPct * q.den

\* Fault injection for C34: the sifted pairs added to the doubled pulse count.
DesiredLenSum(N, aBitsSifted) == 2 * N + Max(0, Len(aBitsSifted))

\* Fault injection for C2: the pulse count not doubled.
DesiredLenSingle(N, aBitsSifted) == Max(N, Max(0, Len(aBitsSifted)))

\* const desiredLen = Math.max(2 * N, Math.max(0, aBitsSifted.length))
DesiredLen(N, aBitsSifted) == Max(2 * N, Max(0, Len(aBitsSifted)))

\* The draws of a bit-string of the given length: the first MaxFreeBits draws vary.
DrawSeqs(len, from) ==
    { [j \in 1..len |-> f[Min(j, MaxFreeBits)]] : f \in [1..MaxFreeBits -> from] }

\* Array.from({ length: desiredLen }, () => randBit()).join('')
KeyBits(draws) == [j \in 1..Len(draws) |-> randBit(draws[j])]

\* (Math.random() * 2 * Math.PI).toFixed(4), in ten-thousandths
RawPhi(u) == (u * 62832) \div 100

\* Math.floor(Math.random() * 1_000_000)
Preimage(u) == u * 10000

\* ------------------------------------------------ runInitialization, segments
\* Fault injection for C9: the re-entrancy guard removed.
runInitializationNeverReturns == FALSE

\* if (qkdRunning) return;   (the button is disabled on the same condition)
runInitializationReturns == qkdRunning

\* The draws an activation has consumed, ds being those of the current step.
Record(r, ds) == IF r.recording THEN r.draws \o ds ELSE r.draws

\* The draws of Alice's preparation loop: randBit() then randBasis(), per pulse.
AliceDraws(N, ub, ua) == [j \in 1..(2 * N) |-> IF j % 2 = 1 THEN ub[(j + 1) \div 2] ELSE ua[j \div 2]]

\* The draws one measurement consumes: the noise test always, randBit() on the
\* two branches that call it, the flip test only with tampering.
MeasureDraws(bB, aBasis, noise, isTampering, u1, u2, u3) ==
    <<u1>> \o (IF u1 < noise \/ bB # aBasis THEN <<u2>> ELSE << >>)
           \o (IF isTampering THEN <<u3>> ELSE << >>)

\* Fault injection for C27: the loop index not advanced with the chosen basis.
BobChoosesStuck(r, i, u) ==
    [r EXCEPT !.i = 0, !.bobBases = Append(@, randBasis(u)), !.draws = Record(r, <<u>>)]

\* One pass of the first half of the measurement loop body: Bob chooses a basis
\* for pulse i and the qubit packet is shown.
BobChooses(r, i, u) ==
    [r EXCEPT !.i = i, !.bobBases = Append(@, randBasis(u)), !.draws = Record(r, <<u>>)]

\* Fault injection for C16: the noise lock not taken at run start.
NotLockedAtStart == FALSE

\* setNoiseLocked(true)
LockedAtStart == TRUE

\* Click on "Start Initialization": everything up to the first await.  Only runs
\* of at most maxN pulses are modelled, with Alice's draws taken from aliceDraws.
runInitializationWith(maxN, aliceDraws, recording) ==
    /\ running
    /\ ~runInitializationReturns
    /\ ClampN(qkdN) <= maxN
    /\ \E ub \in [1..ClampN(qkdN) -> aliceDraws], ua \in [1..ClampN(qkdN) -> aliceDraws] :
         LET N == ClampN(qkdN)
             aliceBits == [j \in 1..N |-> randBit(ub[j])]
             aliceBases == [j \in 1..N |-> randBasis(ua[j])]
         IN  /\ run' = [IdleRun EXCEPT
                          !.pc = "send",
                          !.noise = EffectiveNoise(channelMode, noiseIndex),
                          !.N = N,
                          !.pulseInterval = ClampPulseInterval(pulseIntervalMs),
                          !.sampleSize = ClampSampleSize(qberSampleSize),
                          !.tampering = tampering,
                          !.aliceBits = aliceBits,
                          !.aliceBases = aliceBases,
                          !.recording = recording,
                          !.draws = IF recording THEN AliceDraws(N, ub, ua) ELSE << >>]
             /\ aliceState' = [bits |-> aliceBits, bases |-> aliceBases,
                               text |-> <<"Preparing qubits...">>,
                               memoryVisible |-> TRUE, phi |-> << >>]
    /\ qkdRunning' = TRUE
    /\ qkdDone' = FALSE
    /\ sharedKey' = Null
    /\ logs' = addLogs(<< >>, StatusLogLines(<<"Initialization started">>, NoDetails))
    /\ currentStatus' = <<"Choosing random bits & bases">>
    /\ noiseLocked' = LockedAtStart
    /\ bobState' = [bases |-> << >>, results |-> << >>,
                    text |-> <<"Waiting for qubits...">>,
                    memoryVisible |-> TRUE, phi |-> << >>]
    /\ sifted' = EmptySifted
    /\ revealedSample' = << >>
    /\ qber' = Null
    /\ UNCHANGED << running, paramVars, tampering, signRunning, sign >>
    /\ NoPackets

\* In the whole engine Alice's draws are fixed; one run taken alone draws them all.
runInitialization == runInitializationWith(MaxN, LabelDraws, FALSE)
runInitializationData == runInitializationWith(MaxDataN, UnitDraws, FALSE)
\* One run taken alone, with the draws it consumes recorded.
runInitializationTraced == runInitializationWith(MaxDataN, UnitDraws, TRUE)

\* After sleep(700): the status line, then pulse 0 is sent.
RunSendFirst ==
    /\ run.pc = "send"
    /\ \E u \in UnitDraws :
         LET r == BobChooses(run, 0, u)
             bB == r.bobBases[1]
         IN  /\ run' = [r EXCEPT !.pc = "measure"]
             /\ bobState' = [bobState EXCEPT !.bases = Append(@, bB),
                                             !.text = <<"Measuring qubit in", 1, bB>>]
    /\ currentStatus' = <<"Sending qubits (BB84 states)...", run.N>>
    /\ quantumOut' = sendQuantum(running,
                            QubitContent(run.aliceBases[1], run.aliceBits[1]),
                            Max(MinPulseInterval, run.pulseInterval - 100))
    /\ UNCHANGED << running, paramVars, qkdRunning, qkdDone, noiseLocked, aliceState,
                    sifted, revealedSample, qber, sharedKey, tampering, signRunning,
                    logs, sign >>
    /\ classicalOut' = << >>

\* After sleep(pulseInterval - 80): the outcome of pulse i, noise then tamper.
RunMeasure ==
    /\ run.pc = "measure"
    /\ \E u1 \in UnitDraws, u2 \in UnitDraws, u3 \in UnitDraws :
         LET i == run.i
             raw == MeasureOutcome(run.bobBases[i + 1], run.aliceBases[i + 1],
                                   run.aliceBits[i + 1], run.noise, u1, u2)
             y == TamperOutcome(raw, run.tampering, u3)
         IN  /\ run' = [run EXCEPT
                          !.pc = "pause",
                          !.draws = Record(run, MeasureDraws(run.bobBases[i + 1],
                                                run.aliceBases[i + 1], run.noise,
                                                run.tampering, u1, u2, u3)),
                          !.bobResults = Append(@, y),
                          !.tamperIntroducedCount =
                              IF TamperFlips(run.tampering, u3) THEN @ + 1 ELSE @]
             /\ bobState' = [bobState EXCEPT !.results = Append(@, y),
                                             !.text = <<"Measured qubit", i + 1, y>>]
    /\ UNCHANGED << running, paramVars, qkdRunning, qkdDone, noiseLocked, aliceState,
                    sifted, revealedSample, qber, sharedKey, tampering, signRunning,
                    currentStatus, logs, sign >>
    /\ NoPackets

\* Fault injection for C28: the loop left one pulse early.
MorePulsesShort(i, N) == i + 1 < N - 1

\* i++ then the test i < N of the for loop
MorePulses(i, N) == i + 1 < N

\* After sleep(afterqubitPause): the next pulse is sent, or the loop ends.
RunNextPulse ==
    /\ run.pc = "pause"
    /\ IF MorePulses(run.i, run.N)
       THEN /\ \E u \in UnitDraws :
                 LET i == run.i + 1
                     r == BobChooses(run, i, u)
                     bB == r.bobBases[i + 1]
                 IN  /\ run' = [r EXCEPT !.pc = "measure"]
                     /\ bobState' = [bobState EXCEPT
                                       !.bases = Append(@, bB),
                                       !.text = <<"Measuring qubit in", i + 1, bB>>]
                     /\ quantumOut' = sendQuantum(running,
                                            QubitContent(run.aliceBases[i + 1],
                                                         run.aliceBits[i + 1]),
                                            Max(MinPulseInterval, run.pulseInterval - 100))
            /\ UNCHANGED aliceState
       ELSE /\ run' = [run EXCEPT !.pc = "report"]
            /\ aliceState' = [aliceState EXCEPT !.text = <<"All qubits sent">>]
            /\ bobState' = [bobState EXCEPT !.text = <<"All qubits measured">>]
            /\ quantumOut' = << >>
    /\ UNCHANGED << running, paramVars, qkdRunning, qkdDone, noiseLocked,
                    sifted, revealedSample, qber, sharedKey, tampering, signRunning,
                    currentStatus, logs, sign >>
    /\ classicalOut' = << >>

\* Step 3: Bob reports the detected indices.
RunReport ==
    /\ run.pc = "report"
    /\ run' = [run EXCEPT !.pc = "bobBases"]
    /\ bobState' = [bobState EXCEPT !.text = <<"Reporting detected indices & bases">>]
    /\ classicalOut' = sendClassical(running,
                              <<"Detected", [k \in 1..run.N |-> k - 1]>>, "bob",
                              run.pulseInterval)
    /\ UNCHANGED << running, paramVars, qkdRunning, qkdDone, noiseLocked, aliceState,
                    sifted, revealedSample, qber, sharedKey, tampering, signRunning,
                    currentStatus, logs, sign >>
    /\ quantumOut' = << >>

\* Bob sends his bases.
RunBobBases ==
    /\ run.pc = "bobBases"
    /\ run' = [run EXCEPT !.pc = "sift"]
    /\ classicalOut' = sendClassical(running,
                              <<"Bases", run.bobBases>>, "bob", run.pulseInterval)
    /\ currentStatus' = <<"Revealing bases for sifting">>
    /\ UNCHANGED << running, paramVars, qkdRunning, qkdDone, noiseLocked, aliceState,
                    bobState, sifted, revealedSample, qber, sharedKey, tampering,
                    signRunning, logs, sign >>
    /\ quantumOut' = << >>

\* Step 4: Alice sends her bases and the sifted set is computed.
RunSift ==
    /\ run.pc = "sift"
    /\ LET s == Sift(run.N, run.aliceBits, run.aliceBases, run.bobBases, run.bobResults)
       IN  /\ run' = [run EXCEPT !.pc = "selectSample",
                                 !.keepIndices = s.indices,
                                 !.aBitsSifted = s.aliceBits,
                                 !.bBitsSifted = s.bobBits]
           /\ sifted' = s
           /\ currentStatus' = <<"Sifting done - kept bits", Len(s.indices)>>
           /\ bobState' = [bobState EXCEPT
                             !.text = <<"Sifting done. Kept bits.", Len(s.indices)>>]
    /\ classicalOut' = sendClassical(running,
                              <<"Bases", run.aliceBases>>, "alice", run.pulseInterval)
    /\ UNCHANGED << running, paramVars, qkdRunning, qkdDone, noiseLocked, aliceState,
                    revealedSample, qber, sharedKey, tampering, signRunning, logs, sign >>
    /\ quantumOut' = << >>

\* Step 5 begins: the status line only.
RunSelectSample ==
    /\ run.pc = "selectSample"
    /\ run' = [run EXCEPT !.pc = "sample"]
    /\ currentStatus' = <<"Selecting sample bits for QBER estimation">>
    /\ bobState' = [bobState EXCEPT !.text = <<"Preparing sample reveal...">>]
    /\ UNCHANGED << running, paramVars, qkdRunning, qkdDone, noiseLocked, aliceState,
                    sifted, revealedSample, qber, sharedKey, tampering, signRunning,
                    logs, sign >>
    /\ NoPackets

\* The sample is picked; an empty sample sets the QBER to 0 at once and goes on
\* (sleep(afterqubitPause/2), then sleep(600)) to error correction.
RunSample ==
    /\ run.pc = "sample"
    /\ LET sampleReveal == SampleReveal(run.keepIndices, run.sampleSize,
                                        run.aliceBits, run.bobResults)
       IN  /\ revealedSample' = sampleReveal
           /\ IF Len(sampleReveal) > 0
              THEN /\ run' = [run EXCEPT !.pc = "sampleAlice", !.sampleReveal = sampleReveal]
                   /\ classicalOut' = sendClassical(running,
                          <<"SAMPLE indices", [k \in 1..Len(sampleReveal) |-> sampleReveal[k].index]>>,
                          "alice", run.pulseInterval)
                   /\ UNCHANGED << qber, currentStatus >>
              ELSE /\ run' = [run EXCEPT !.pc = "errorCorrection", !.sampleReveal = sampleReveal]
                   /\ qber' = Some(ZeroQber)
                   /\ currentStatus' = <<"Not enough sifted bits for sample - assuming 0% QBER">>
                   /\ classicalOut' = << >>
    /\ UNCHANGED << running, paramVars, qkdRunning, qkdDone, noiseLocked, aliceState,
                    bobState, sifted, sharedKey, tampering, signRunning, logs, sign >>
    /\ quantumOut' = << >>

RunSampleAlice ==
    /\ run.pc = "sampleAlice"
    /\ run' = [run EXCEPT !.pc = "sampleBob"]
    /\ classicalOut' = sendClassical(running,
           <<"SAMPLE alice", [k \in 1..Len(run.sampleReveal) |-> run.sampleReveal[k].alice]>>,
           "alice", run.pulseInterval)
    /\ UNCHANGED << running, paramVars, engineVars, sign >>
    /\ quantumOut' = << >>

RunSampleBob ==
    /\ run.pc = "sampleBob"
    /\ run' = [run EXCEPT !.pc = "qber"]
    /\ classicalOut' = sendClassical(running,
           <<"SAMPLE bob", [k \in 1..Len(run.sampleReveal) |-> run.sampleReveal[k].bob]>>,
           "bob", run.pulseInterval)
    /\ UNCHANGED << running, paramVars, engineVars, sign >>
    /\ quantumOut' = << >>

\* The log lines of the QBER step of a tampered run: the detection probability,
\* then the proof line, then the status.
AbortLogLines(q, N, flips) ==
    << <<"Probability to detect eavesdropper over qubits", N>> >>
    \o (IF QberLow(q)
        THEN << <<"Eavesdropping detected: sample QBER - proof of an eavesdropper (tamper flips introduced)", q, flips>>,
                <<"Eavesdrop detected - aborting initialization">> >>
        ELSE << <<"High QBER after tampering - channel severely compromised (abort)", q>>,
                <<"High QBER (>45%) - aborting initialization">> >>)

AbortStatus(q) ==
    IF QberLow(q) THEN <<"Eavesdrop detected - aborting initialization">>
    ELSE <<"High QBER (>45%) - aborting initialization">>

AbortText(q) ==
    IF QberLow(q) THEN <<"Initialization aborted due to detected eavesdropping">>
    ELSE <<"Initialization aborted - channel compromised (high QBER)">>

\* Fault injection for C3: a high QBER aborts whether or not tampering is on.
QberAbortsOnHigh(isTampering, q) == isTampering \/ ~QberLow(q)

\* if (tampering) { if (q <= 0.45) {... return;} else {... return;} }: both
\* branches abort, so the tamper flag alone decides.
QberAborts(isTampering, q) == isTampering

\* Fault injection for C22: an abort that returns without releasing the flag.
QkdRunningKeptOnAbort == TRUE

\* setQkdRunning(false) of the two abort branches
QkdRunningAfterAbort == FALSE

\* The QBER of a non-empty sample; with tampering, the run aborts here.
RunQber ==
    /\ run.pc = "qber"
    /\ LET q == SampleQber(run.sampleReveal)
       IN  /\ qber' = Some(q)
           /\ IF QberAborts(run.tampering, q)
              THEN /\ logs' = addLogs(logs, AbortLogLines(q, run.N, run.tamperIntroducedCount))
                   /\ currentStatus' = AbortStatus(q)
                   /\ aliceState' = [aliceState EXCEPT !.text = AbortText(q)]
                   /\ bobState' = [bobState EXCEPT !.text = AbortText(q)]
                   /\ noiseLocked' = FALSE
                   /\ qkdRunning' = QkdRunningAfterAbort
                   /\ qkdDone' = FALSE
                   /\ run' = IdleRun
              ELSE /\ currentStatus' = <<"QBER sample (simulated)", q>>
                   /\ run' = [run EXCEPT !.pc = "errorCorrection"]
                   /\ UNCHANGED << logs, aliceState, bobState, noiseLocked,
                                   qkdRunning, qkdDone >>
    /\ UNCHANGED << running, paramVars, sifted, revealedSample, sharedKey, tampering,
                    signRunning, sign >>
    /\ NoPackets

\* Step 6 begins (after sleep(600)).
RunErrorCorrection ==
    /\ run.pc = "errorCorrection"
    /\ run' = [run EXCEPT !.pc = "correct"]
    /\ currentStatus' = <<"Running simulated error correction">>
    /\ bobState' = [bobState EXCEPT !.text = <<"Applying corrections (simulated)...">>]
    /\ UNCHANGED << running, paramVars, qkdRunning, qkdDone, noiseLocked, aliceState,
                    sifted, revealedSample, qber, sharedKey, tampering, signRunning,
                    logs, sign >>
    /\ NoPackets

\* Fault injection for C23: a correction that complements the bits it copies.
CorrectedBobBitsFlipped(aBitsSifted) ==
    [k \in 1..Len(aBitsSifted) |-> 1 - aBitsSifted[k]]

\* const correctedBobBits = [...aBitsSifted]
CorrectedBobBits(aBitsSifted) == aBitsSifted

\* Bob's sifted bits are forced to Alice's.
RunCorrect ==
    /\ run.pc = "correct"
    /\ run' = [run EXCEPT !.pc = "privacyAmp"]
    /\ sifted' = [sifted EXCEPT !.bobBits = CorrectedBobBits(run.aBitsSifted)]
    /\ classicalOut' = sendClassical(running,
                              <<"EC (simulated)">>, "alice", run.pulseInterval)
    /\ UNCHANGED << running, paramVars, qkdRunning, qkdDone, noiseLocked, aliceState,
                    bobState, revealedSample, qber, sharedKey, tampering, signRunning,
                    currentStatus, logs, sign >>
    /\ quantumOut' = << >>

\* Step 7 begins.
RunPrivacyAmp ==
    /\ run.pc = "privacyAmp"
    /\ run' = [run EXCEPT !.pc = "key"]
    /\ currentStatus' = <<"Deriving final key (simulated)">>
    /\ UNCHANGED << running, paramVars, qkdRunning, qkdDone, noiseLocked, aliceState,
                    bobState, sifted, revealedSample, qber, sharedKey, tampering,
                    signRunning, logs, sign >>
    /\ NoPackets

\* The party text showing the key: the first 20 characters when it is longer.
KeyText(key) ==
    <<"Key (simulated) =", IF Len(key) > 20 THEN SubSeq(key, 1, 20) ELSE key>>

\* Fault injection for C31: the number logged varies with the first key bit.
KeyDetailsLeaking(simulatedKeyBits) ==
    [type |-> "key", length |-> Len(simulatedKeyBits) + simulatedKeyBits[1]]

\* { type: 'key', length: simulatedKeyBits.length }
KeyDetails(simulatedKeyBits) == [type |-> "key", length |-> Len(simulatedKeyBits)]

\* The key is drawn and published.
RunKey ==
    /\ run.pc = "key"
    /\ \E draws \in DrawSeqs(DesiredLen(run.N, run.aBitsSifted), UnitDraws) :
         LET simulatedKeyBits == KeyBits(draws)
         IN  /\ sharedKey' = Some(simulatedKeyBits)
             /\ currentStatus' = <<"Key derived (simulated) - length bits", Len(simulatedKeyBits)>>
             /\ logs' = addLogs(logs,
                           StatusLogLines(<<"Key derived (simulated) - length bits",
                                            Len(simulatedKeyBits)>>,
                                          KeyDetails(simulatedKeyBits)))
             /\ aliceState' = [aliceState EXCEPT !.text = KeyText(simulatedKeyBits)]
             /\ bobState' = [bobState EXCEPT !.text = KeyText(simulatedKeyBits)]
    /\ run' = [run EXCEPT !.pc = "phiBranch"]
    /\ UNCHANGED << running, paramVars, qkdRunning, qkdDone, noiseLocked, sifted,
                    revealedSample, qber, tampering, signRunning, sign >>
    /\ NoPackets

\* Fault injection for C36: phi exchanged whatever the tamper flag.
PhiNeverWithheld(isTampering) == FALSE

\* the else of `if (!tampering)`
PhiWithheld(isTampering) == isTampering

\* if (!tampering): phi is generated; else the run ends with phi withheld.
RunPhiBranch ==
    /\ run.pc = "phiBranch"
    /\ IF ~PhiWithheld(run.tampering)
       THEN /\ run' = [run EXCEPT !.pc = "phiGen"]
            /\ currentStatus' = <<"generating random phi">>
            /\ logs' = addLogs(logs, StatusLogLines(<<"generating random phi">>, NoDetails))
            /\ UNCHANGED << aliceState, bobState, noiseLocked, qkdRunning, qkdDone >>
       ELSE /\ run' = IdleRun
            /\ currentStatus' = <<"Initialization complete (tampering active - phi withheld)">>
            /\ logs' = addLogs(logs,
                          StatusLogLines(<<"Initialization complete (tampering active - phi withheld)">>,
                                         NoDetails))
            /\ aliceState' = [aliceState EXCEPT
                  !.text = <<"Initialization aborted/finished with tampering - phi withheld">>]
            /\ bobState' = [bobState EXCEPT
                  !.text = <<"Initialization aborted/finished with tampering - phi withheld">>]
            /\ noiseLocked' = FALSE
            /\ qkdRunning' = FALSE
            /\ qkdDone' = FALSE
    /\ UNCHANGED << running, paramVars, sifted, revealedSample, qber, sharedKey,
                    tampering, signRunning, sign >>
    /\ NoPackets

\* The six characters of the phi token
PhiToken(draws) == [j \in 1..PhiTokenLen |-> IF draws[j] < HalfPct THEN 0 ELSE 1]

\* phi and its token are drawn; the token is shown on the quantum channel.
RunPhiGen ==
    /\ run.pc = "phiGen"
    /\ \E u \in LabelDraws, draws \in DrawSeqs(PhiTokenLen, LabelDraws) :
         LET rawPhi == RawPhi(u)
             phiEncrypted == PhiToken(draws)
         IN  /\ currentStatus' = <<"phi selected and encrypted">>
             /\ logs' = addLogs(logs,
                           StatusLogLines(<<"phi selected and encrypted">>,
                              [type |-> "phi", rawPhi |-> rawPhi, encrypted |-> phiEncrypted]))
             /\ aliceState' = [aliceState EXCEPT
                                 !.phi = phiEncrypted,
                                 !.text = <<"Sending ENC(phi) to SKG/Bob", phiEncrypted>>]
             /\ quantumOut' = sendQuantum(running,
                                     <<"phi", phiEncrypted>>, run.pulseInterval * 2)
             /\ run' = [run EXCEPT !.pc = "phiDeliver", !.phiEncrypted = phiEncrypted]
    /\ UNCHANGED << running, paramVars, qkdRunning, qkdDone, noiseLocked, bobState,
                    sifted, revealedSample, qber, sharedKey, tampering, signRunning, sign >>
    /\ classicalOut' = << >>

\* Bob receives the token (the one Alice holds: phiEncrypted is a local).
\* Fault injection for C35: an empty token stored by Bob.
DeliveredPhiEmpty(phiEncrypted) == << >>

\* setBobState(prev => ({ ...prev, phi: phiEncrypted, ... }))
DeliveredPhi(phiEncrypted) == phiEncrypted

RunPhiDeliver ==
    /\ run.pc = "phiDeliver"
    /\ run' = [run EXCEPT !.pc = "complete"]
    /\ bobState' = [bobState EXCEPT !.phi = DeliveredPhi(run.phiEncrypted),
                                    !.text = <<"Received ENC(phi)", run.phiEncrypted>>]
    /\ logs' = addLog(logs, <<"phi (encrypted) delivered to SKG/Bob", run.phiEncrypted>>)
    /\ UNCHANGED << running, paramVars, qkdRunning, qkdDone, noiseLocked, aliceState,
                    sifted, revealedSample, qber, sharedKey, tampering, signRunning,
                    currentStatus, sign >>
    /\ NoPackets

\* Initialization complete.
RunComplete ==
    /\ run.pc = "complete"
    /\ run' = IdleRun
    /\ currentStatus' = <<"Initialization complete">>
    /\ logs' = addLogs(logs, StatusLogLines(<<"Initialization complete">>, NoDetails))
    /\ aliceState' = [aliceState EXCEPT !.text = <<"Initialization complete">>]
    /\ bobState' = [bobState EXCEPT !.text = <<"Initialization complete (SKG/Bob)">>]
    /\ noiseLocked' = FALSE
    /\ qkdRunning' = FALSE
    /\ qkdDone' = TRUE
    /\ UNCHANGED << running, paramVars, sifted, revealedSample, qber, sharedKey,
                    tampering, signRunning, sign >>
    /\ NoPackets

\* ------------------------------------------------------ signAndSend, segments
\* Fault injection for C10: the in-flight test dropped from the guard.
signAndSendIgnoresFlight == ~qkdDone \/ qkdRunning

\* if (!qkdDone || qkdRunning || signRunning) return;   (the button is disabled
\* on the same condition)
signAndSendReturns == ~qkdDone \/ qkdRunning \/ signRunning

\* Click on "Sign & Send Message": everything up to the first await.
signAndSend ==
    /\ running
    /\ ~signAndSendReturns
    /\ signRunning' = TRUE
    /\ sign' = [pc |-> "computing", tampering |-> tampering]
    /\ \E u \in LabelDraws :
         /\ currentStatus' = <<"Converting classical message to |P> (simulated)">>
         /\ logs' = addLogs(logs,
                       StatusLogLines(<<"Converting classical message to |P> (simulated)">>,
                                      [type |-> "preP", preimage |-> Preimage(u)]))
    /\ UNCHANGED << running, paramVars, qkdRunning, qkdDone, noiseLocked, aliceState,
                    bobState, sifted, revealedSample, qber, sharedKey, tampering, run >>
    /\ NoPackets

SignComputing ==
    /\ sign.pc = "computing"
    /\ sign' = [sign EXCEPT !.pc = "computed"]
    /\ aliceState' = [aliceState EXCEPT
          !.text = <<"Computing |S> from |P> using ENC (from OTP) and phi (simulated)...">>]
    /\ currentStatus' = <<"Computing |S> from |P> using ENC (from OTP) and phi (simulated)">>
    /\ logs' = addLogs(logs,
                  StatusLogLines(<<"Computing |S> from |P> using ENC (from OTP) and phi (simulated)">>,
                                 NoDetails))
    /\ UNCHANGED << running, paramVars, qkdRunning, qkdDone, noiseLocked, bobState,
                    sifted, revealedSample, qber, sharedKey, tampering, signRunning, run >>
    /\ NoPackets

SignComputed ==
    /\ sign.pc = "computed"
    /\ sign' = [sign EXCEPT !.pc = "sendP"]
    /\ logs' = addLog(logs, <<"Computed |S> (simulated)">>)
    /\ aliceState' = [aliceState EXCEPT
          !.text = <<"Computed |S> (simulated). Sending signed quantum packet to Bob...">>]
    /\ UNCHANGED << running, paramVars, qkdRunning, qkdDone, noiseLocked, bobState,
                    sifted, revealedSample, qber, sharedKey, tampering, signRunning,
                    currentStatus, run >>
    /\ NoPackets

\* One of the three label-only packets of the signature.
SignSend(from, to, label, logLine) ==
    /\ sign.pc = from
    /\ sign' = [sign EXCEPT !.pc = to]
    /\ quantumOut' = sendQuantum(running, <<label>>, SignPacketDuration)
    /\ logs' = addLog(logs, <<logLine>>)
    /\ UNCHANGED << running, paramVars, qkdRunning, qkdDone, noiseLocked, aliceState,
                    bobState, sifted, revealedSample, qber, sharedKey, tampering,
                    signRunning, currentStatus, run >>
    /\ classicalOut' = << >>

SignSendP == SignSend("sendP", "sendS", "|P>", "Sent |P> over Q")
\* Fault injection for C37: after |S> the signature goes back to sending |P>.
SignSendSAgain == SignSend("sendS", "sendP", "|S>", "Sent |S> over Q")

SignSendS == SignSend("sendS", "sendID", "|S>", "Sent |S> over Q")
SignSendID == SignSend("sendID", "receivedP", "|ID>", "Sent |ID> over Q")

SignReceivedP ==
    /\ sign.pc = "receivedP"
    /\ sign' = [sign EXCEPT !.pc = "verifying"]
    /\ bobState' = [bobState EXCEPT !.text = <<"Received |P> (stored)">>]
    /\ UNCHANGED << running, paramVars, qkdRunning, qkdDone, noiseLocked, aliceState,
                    sifted, revealedSample, qber, sharedKey, tampering, signRunning,
                    currentStatus, logs, run >>
    /\ NoPackets

SignVerifying ==
    /\ sign.pc = "verifying"
    /\ sign' = [sign EXCEPT !.pc = "decrypting"]
    /\ bobState' = [bobState EXCEPT
          !.text = <<"Received |S> and |ID> - verifying (simulated)...">>]
    /\ currentStatus' = <<"Bob computes his own |S> from ENC, phi and |P> (simulated)">>
    /\ logs' = addLogs(logs,
                  StatusLogLines(<<"Bob computes his own |S> from ENC, phi and |P> (simulated)">>,
                                 NoDetails))
    /\ UNCHANGED << running, paramVars, qkdRunning, qkdDone, noiseLocked, aliceState,
                    sifted, revealedSample, qber, sharedKey, tampering, signRunning, run >>
    /\ NoPackets

SignDecrypting ==
    /\ sign.pc = "decrypting"
    /\ sign' = [sign EXCEPT !.pc = "outcome"]
    /\ bobState' = [bobState EXCEPT
          !.text = <<"Decrypting |S> with shared key and phi (simulated)...">>]
    /\ UNCHANGED << running, paramVars, qkdRunning, qkdDone, noiseLocked, aliceState,
                    sifted, revealedSample, qber, sharedKey, tampering, signRunning,
                    currentStatus, logs, run >>
    /\ NoPackets

\* Fault injection for C11: the verification never fails.
SignatureNeverFails(isTampering) == FALSE

\* if (tampering) { ... 'Tampering detected during QIBS' ...; return; }
SignatureFails(isTampering) == isTampering

\* Fault injection for C33: the in-flight flag kept at the outcome.
SignRunningKeptAtOutcome == TRUE

\* setSignRunning(false) of the two outcomes
SignRunningAfterOutcome == FALSE

\* The verification: failed with tampering, accepted otherwise.
SignOutcome ==
    /\ sign.pc = "outcome"
    /\ sign' = IdleSign
    /\ IF SignatureFails(sign.tampering)
       THEN /\ bobState' = [bobState EXCEPT
                  !.text = <<"Verification failed - tampering detected (|P> mismatch)">>]
            /\ aliceState' = [aliceState EXCEPT
                  !.text = <<"Signature sent - but tampering detected (simulated)">>]
            /\ logs' = addLogs(logs,
                  << <<"Tampering detected in QIBS: Bob's computed P != received P - message integrity compromised">> >>
                  \o StatusLogLines(<<"Tampering detected during QIBS - signature invalid">>, NoDetails))
            /\ currentStatus' = <<"Tampering detected during QIBS - signature invalid">>
       ELSE /\ bobState' = [bobState EXCEPT
                  !.text = <<"Verification complete - signature accepted">>]
            /\ aliceState' = [aliceState EXCEPT
                  !.text = <<"Signature sent - awaiting confirmation">>]
            /\ currentStatus' = <<"Signature accepted by SKG/Bob">>
            /\ logs' = addLogs(logs,
                  StatusLogLines(<<"Signature accepted by SKG/Bob">>, NoDetails)
                  \o << <<"Bob computed P matches received P - message accepted (simulated)">> >>)
    /\ signRunning' = SignRunningAfterOutcome
    /\ UNCHANGED << running, paramVars, qkdRunning, qkdDone, noiseLocked, sifted,
                    revealedSample, qber, sharedKey, tampering, run >>
    /\ NoPackets

\* ------------------------------------------------------------ specification
RunStep ==
    \/ RunSendFirst \/ RunMeasure \/ RunNextPulse \/ RunReport \/ RunBobBases
    \/ RunSift \/ RunSelectSample \/ RunSample \/ RunSampleAlice \/ RunSampleBob
    \/ RunQber \/ RunErrorCorrection \/ RunCorrect \/ RunPrivacyAmp \/ RunKey
    \/ RunPhiBranch \/ RunPhiGen \/ RunPhiDeliver \/ RunComplete

SignStep ==
    \/ SignComputing \/ SignComputed \/ SignSendP \/ SignSendS \/ SignSendID
    \/ SignReceivedP \/ SignVerifying \/ SignDecrypting \/ SignOutcome

Next ==
    \/ EnterPerfect \/ EnterNoisy \/ Stop \/ handleTamperClick
    \/ SetNoiseIndex \/ SetPulseIntervalMs \/ SetQkdN \/ SetQberSampleSize
    \/ runInitialization \/ RunStep
    \/ signAndSend \/ SignStep

Spec == Init /\ [][Next]_vars

\* ------------------------------------------------- one run taken alone
\* The simulation view just entered, with the parameters typed in and the tamper
\* button possibly pressed: the states from which a first run is started.
DataInit ==
    /\ running = TRUE
    /\ qkdRunning = FALSE
    /\ qkdDone = FALSE
    /\ \/ channelMode = "perfect" /\ noiseIndex = 0
       \/ channelMode = "noisy" /\ noiseIndex \in {DefaultNoiseIndex} \cup NoiseInputs
    /\ noiseLocked = FALSE
    /\ aliceState = IdleAlice
    /\ bobState = IdleBob
    /\ sifted = EmptySifted
    /\ revealedSample = << >>
    /\ qber = Null
    /\ sharedKey = Null
    /\ qkdN \in 1..MaxDataN
    /\ pulseIntervalMs = DefaultPulseIntervalMs
    /\ qberSampleSize \in {-1} \cup 1..MaxDataN
    /\ tampering \in BOOLEAN
    /\ signRunning = FALSE
    /\ currentStatus = IF tampering THEN <<"Eavesdropping...">> ELSE <<"Not started">>
    /\ logs = IF tampering
              THEN addLogs(<< >>, << <<"Eavesdropping...">>,
                                     <<"Tamper/Eavesdrop engaged - attacker active">> >>)
              ELSE << >>
    /\ classicalOut = << >>
    /\ quantumOut = << >>
    /\ run = IdleRun
    /\ sign = IdleSign

DataNext ==
    \/ runInitializationData \/ RunStep

DataSpec == DataInit /\ [][DataNext]_vars

\* One run alone from a configured start, its draws recorded.
TraceNext ==
    \/ runInitializationTraced \/ RunStep

TraceSpec == DataInit /\ [][TraceNext]_vars

\* The timers of a run's pacing delays fire: a pending continuation of
\* runInitialization is eventually executed.
FairSpec == Spec /\ WF_vars(RunStep)

\* The timers of a signature's delays fire: a pending continuation of
\* signAndSend is eventually executed.
SignFairSpec == Spec /\ WF_vars(SignStep)

\* ------------------------------------------------- the Channel component
\* x ?? d, an absent field being Null
Coalesce(x, d) == IF IsNull(x) THEN d ELSE Val(x)

\* Fault injection for C32: absent fields left unfilled.
sendPacketNoDefaults(packets, packet, id, color) ==
    Append(packets, [id |-> id,
                     content |-> Coalesce(packet.content, << >>),
                     color |-> Coalesce(packet.color, color),
                     start |-> Coalesce(packet.start, ""),
                     duration |-> Coalesce(packet.duration, 0)])

\* Channel.sendPacket: setPackets(p => [...p, pkt]), pkt with its defaults
\* filled in; id stands for `${Date.now()}-${Math.random()}`, color for the
\* component's color prop.
sendPacket(packets, packet, id, color) ==
    Append(packets, [id |-> id,
                     content |-> Coalesce(packet.content, <<"DATA">>),
                     color |-> Coalesce(packet.color, color),
                     start |-> Coalesce(packet.start, "left"),
                     duration |-> Coalesce(packet.duration, DefaultPacketDuration)])

\* Channel.removePacket: setPackets(p => p.filter(x => x.id !== id))
removePacket(packets, id) == SelectSeq(packets, LAMBDA x : x.id # id)

\* The argument of sendPacket as sendClassical and sendQuantum build it: all
\* four fields present.
Given(p) == [content |-> Some(p.content), color |-> Some(p.color),
             start |-> Some(p.start), duration |-> Some(p.duration)]

\* Arguments of sendPacket with fields left out.
RawPackets ==
    { [content |-> Null, color |-> Null, start |-> Null, duration |-> Null],
      [content |-> Some(<<"ping">>), color |-> Null, start |-> Null, duration |-> Null],
      [content |-> Null, color |-> Null, start |-> Some("right"), duration |-> Some(1000)] }

\* Identifiers a new packet of a channel may get: any not in use there.
FreshIds(packets) == (1..(MaxPackets + 1)) \ {packets[k].id : k \in 1..Len(packets)}

\* The Channel components taken alone: classicalOut and quantumOut hold the
\* packet lists of the two components, which exist in the simulation view only.
ChannelInit ==
    /\ running \in BOOLEAN
    /\ qkdRunning = FALSE
    /\ qkdDone = FALSE
    /\ channelMode = IF running THEN "perfect" ELSE "null"
    /\ noiseIndex = IF running THEN 0 ELSE DefaultNoiseIndex
    /\ noiseLocked = FALSE
    /\ aliceState = IdleAlice
    /\ bobState = IdleBob
    /\ sifted = EmptySifted
    /\ revealedSample = << >>
    /\ qber = Null
    /\ sharedKey = Null
    /\ qkdN = DefaultQkdN
    /\ pulseIntervalMs = DefaultPulseIntervalMs
    /\ qberSampleSize = DefaultSampleSize
    /\ tampering = FALSE
    /\ signRunning = FALSE
    /\ currentStatus = <<"Not started">>
    /\ logs = << >>
    /\ classicalOut = << >>
    /\ quantumOut = << >>
    /\ run = IdleRun
    /\ sign = IdleSign

\* A call of sendClassical: handed to the classical component if it exists.
ChannelSendClassical ==
    /\ Len(classicalOut) < MaxPackets
    /\ \E sender \in {"alice", "bob"}, id \in FreshIds(classicalOut) :
         LET out == sendClassical(running, <<"Bases">>, sender, pulseIntervalMs)
         IN  classicalOut' = IF out = << >> THEN classicalOut
                             ELSE sendPacket(classicalOut, Given(out[1]), id, "#1976d2")
    /\ UNCHANGED << running, engineVars, paramVars, quantumOut, run, sign >>

\* A call of sendQuantum.
ChannelSendQuantum ==
    /\ Len(quantumOut) < MaxPackets
    /\ \E id \in FreshIds(quantumOut) :
         LET out == sendQuantum(running, <<"|P>">>, SignPacketDuration)
         IN  quantumOut' = IF out = << >> THEN quantumOut
                           ELSE sendPacket(quantumOut, Given(out[1]), id, "#9c27b0")
    /\ UNCHANGED << running, engineVars, paramVars, classicalOut, run, sign >>

\* A call of sendPacket of the mounted classical component with fields left out.
ChannelSendRaw ==
    /\ running
    /\ Len(classicalOut) < MaxPackets
    /\ \E packet \in RawPackets, id \in FreshIds(classicalOut) :
         classicalOut' = sendPacket(classicalOut, packet, id, "#1976d2")
    /\ UNCHANGED << running, engineVars, paramVars, quantumOut, run, sign >>

\* onAnimationComplete of a packet of the classical component.
ChannelRemoveClassical ==
    /\ \E k \in 1..Len(classicalOut) :
         classicalOut' = removePacket(classicalOut, classicalOut[k].id)
    /\ UNCHANGED << running, engineVars, paramVars, quantumOut, run, sign >>

\* onAnimationComplete of a packet of the quantum component.
ChannelRemoveQuantum ==
    /\ \E k \in 1..Len(quantumOut) :
         quantumOut' = removePacket(quantumOut, quantumOut[k].id)
    /\ UNCHANGED << running, engineVars, paramVars, classicalOut, run, sign >>

ChannelNext ==
    \/ ChannelSendClassical \/ ChannelSendQuantum \/ ChannelSendRaw
    \/ ChannelRemoveClassical \/ ChannelRemoveQuantum

ChannelSpec == ChannelInit /\ [][ChannelNext]_vars

\* ------------------------------------------- the earlier flow, runQKDDemo
\* The earlier App has no log, status, tamper flag, signature or parameters.
demoUnusedVars == << channelMode, noiseIndex, noiseLocked, qkdN, pulseIntervalMs,
                     qberSampleSize, tampering, signRunning, currentStatus, logs,
                     sign >>

\* const N = 12, cut to MaxDemoN pulses
DemoN == Min(DemoPulses, MaxDemoN)

\* The locals of an activation of runQKDDemo; sifted is the value of the state
\* `sifted` in the render whose handler was clicked, which the activation's
\* closure reads from then on.
StartedDemo(siftedAtClick) ==
    [ pc |-> "prepare", sifted |-> siftedAtClick, aliceBits |-> << >>,
      aliceBases |-> << >>, bobBases |-> << >>, bobResults |-> << >>, i |-> 0,
      sampleReveal |-> << >> ]

\* Math.min(sampleSize, Math.max(0, Math.floor(sifted.indices.length / 2) || sampleSize))
DemoSampleCount(indices) ==
    Min(DemoSampleSize,
        Max(0, IF Len(indices) \div 2 = 0 THEN DemoSampleSize ELSE Len(indices) \div 2))

\* for (s < sampleCount) if (sifted.indices[s] !== undefined) sampleIndices.push(...)
DemoSampleIndices(indices) ==
    SubSeq(indices, 1, Min(DemoSampleCount(indices), Len(indices)))

\* makeRandomKey(len): len bytes Math.floor(Math.random() * 256), shown in hex
makeRandomKey(draws) == [j \in 1..Len(draws) |-> (draws[j] * 256) \div 100]

DemoInit ==
    /\ running = FALSE
    /\ qkdRunning = FALSE
    /\ qkdDone = FALSE
    /\ channelMode = "null"
    /\ noiseIndex = DefaultNoiseIndex
    /\ noiseLocked = FALSE
    /\ aliceState = [bits |-> << >>, bases |-> << >>, text |-> <<"idle">>,
                     memoryVisible |-> TRUE]
    /\ bobState = [bases |-> << >>, results |-> << >>, text |-> <<"idle">>,
                   memoryVisible |-> TRUE]
    /\ sifted = EmptySifted
    /\ revealedSample = << >>
    /\ qber = Null
    /\ sharedKey = Null
    /\ qkdN = DefaultQkdN
    /\ pulseIntervalMs = DefaultPulseIntervalMs
    /\ qberSampleSize = DefaultSampleSize
    /\ tampering = FALSE
    /\ signRunning = FALSE
    /\ currentStatus = <<"Not started">>
    /\ logs = << >>
    /\ classicalOut = << >>
    /\ quantumOut = << >>
    /\ run = << >>
    /\ sign = IdleSign

\* "Start Simulation" of the earlier menu view
DemoEnter ==
    /\ ~running
    /\ running' = TRUE
    /\ UNCHANGED << qkdRunning, qkdDone, aliceState, bobState, sifted, revealedSample,
                    qber, sharedKey, run, demoUnusedVars >>
    /\ NoPackets

\* "Stop" of the earlier App: never disabled, and the activations go on.
DemoStop ==
    /\ running
    /\ running' = FALSE
    /\ qkdRunning' = FALSE
    /\ qkdDone' = FALSE
    /\ UNCHANGED << aliceState, bobState, sifted, revealedSample, qber, sharedKey,
                    run, demoUnusedVars >>
    /\ NoPackets

\* Click on "Start QKD" (shown with !qkdRunning && !qkdDone): everything up
\* to the first await.
runQKDDemo ==
    /\ running /\ ~qkdRunning /\ ~qkdDone
    /\ Len(run) < MaxDemoRuns
    /\ qkdRunning' = TRUE
    /\ qkdDone' = FALSE
    /\ sharedKey' = Null
    /\ aliceState' = [bits |-> << >>, bases |-> << >>,
                      text |-> <<"Preparing pulses...">>, memoryVisible |-> TRUE]
    /\ bobState' = [bases |-> << >>, results |-> << >>,
                    text |-> <<"Waiting for pulses...">>, memoryVisible |-> TRUE]
    /\ sifted' = EmptySifted
    /\ revealedSample' = << >>
    /\ qber' = Null
    /\ run' = Append(run, StartedDemo(sifted))
    /\ UNCHANGED << running, demoUnusedVars >>
    /\ NoPackets

\* Step 1: Alice's bits and bases.
DemoPrepare(k) ==
    /\ run[k].pc = "prepare"
    /\ \E ub \in [1..DemoN -> LabelDraws], ua \in [1..DemoN -> UnitDraws] :
         LET aliceBits == [j \in 1..DemoN |-> randBit(ub[j])]
             aliceBases == [j \in 1..DemoN |-> randBasis(ua[j])]
         IN  /\ run' = [run EXCEPT ![k].pc = "send", ![k].aliceBits = aliceBits,
                                   ![k].aliceBases = aliceBases]
             /\ aliceState' = [aliceState EXCEPT
                                 !.text = <<"Choosing random bits & bases">>,
                                 !.bits = aliceBits, !.bases = aliceBases]
    /\ UNCHANGED << running, qkdRunning, qkdDone, bobState, sifted, revealedSample,
                    qber, sharedKey, demoUnusedVars >>
    /\ NoPackets

\* The first half of the loop body for pulse i: Bob's basis, the qubit packet.
DemoChoose(k, i, firstPulse) ==
    \E u \in UnitDraws :
       LET bB == randBasis(u)
       IN  /\ run' = [run EXCEPT ![k].pc = "measure", ![k].i = i,
                                 ![k].bobBases = Append(@, bB)]
           /\ bobState' = [bobState EXCEPT !.bases = Append(@, bB),
                                           !.text = <<"Measuring pulse in", i + 1, bB>>]
           /\ aliceState' = IF firstPulse
                            THEN [aliceState EXCEPT
                                    !.text = <<"Sending quantum pulses (BB84 states)...", DemoN>>]
                            ELSE aliceState
           /\ quantumOut' = sendQuantum(running,
                                <<"psi", i + 1, run[k].aliceBases[i + 1],
                                  run[k].aliceBits[i + 1]>>, 500)
           /\ classicalOut' = << >>

\* After sleep(900): the texts, then pulse 0 is sent.
DemoSendFirst(k) ==
    /\ run[k].pc = "send"
    /\ DemoChoose(k, 0, TRUE)
    /\ UNCHANGED << running, qkdRunning, qkdDone, sifted, revealedSample, qber,
                    sharedKey, demoUnusedVars >>

\* After sleep(pulseInterval - 80): the outcome of pulse i, ideal channel.
DemoMeasure(k) ==
    /\ run[k].pc = "measure"
    /\ \E u \in UnitDraws :
         LET i == run[k].i
             y == IF run[k].bobBases[i + 1] = run[k].aliceBases[i + 1]
                  THEN run[k].aliceBits[i + 1] ELSE randBit(u)
         IN  /\ run' = [run EXCEPT ![k].pc = "pause", ![k].bobResults = Append(@, y)]
             /\ bobState' = [bobState EXCEPT !.results = Append(@, y),
                                             !.text = <<"Measured pulse", i + 1, y>>]
             /\ classicalOut' = sendClassical(running, <<"DET", i + 1>>, "alice", 800)
    /\ UNCHANGED << running, qkdRunning, qkdDone, aliceState, sifted, revealedSample,
                    qber, sharedKey, demoUnusedVars >>
    /\ quantumOut' = << >>

\* After sleep(afterPulsePause): the next pulse is sent, or the loop ends.
DemoNextPulse(k) ==
    /\ run[k].pc = "pause"
    /\ IF MorePulses(run[k].i, DemoN)
       THEN DemoChoose(k, run[k].i + 1, FALSE)
       ELSE /\ run' = [run EXCEPT ![k].pc = "report"]
            /\ aliceState' = [aliceState EXCEPT !.text = <<"All pulses sent">>]
            /\ bobState' = [bobState EXCEPT !.text = <<"All pulses measured">>]
            /\ NoPackets
    /\ UNCHANGED << running, qkdRunning, qkdDone, sifted, revealedSample, qber,
                    sharedKey, demoUnusedVars >>

\* A continuation that sets texts and sends at most one classical packet.
DemoText(k, from, to, aText, bText, cOut) ==
    /\ run[k].pc = from
    /\ run' = [run EXCEPT ![k].pc = to]
    /\ aliceState' = IF IsNull(aText) THEN aliceState
                     ELSE [aliceState EXCEPT !.text = Val(aText)]
    /\ bobState' = IF IsNull(bText) THEN bobState
                   ELSE [bobState EXCEPT !.text = Val(bText)]
    /\ classicalOut' = cOut
    /\ quantumOut' = << >>
    /\ UNCHANGED << running, qkdRunning, qkdDone, sifted, revealedSample, qber,
                    sharedKey, demoUnusedVars >>

\* Step 4: Alice's bases are sent and the sifted set is computed and published.
DemoSift(k) ==
    /\ run[k].pc = "sift"
    /\ LET s == Sift(DemoN, run[k].aliceBits, run[k].aliceBases, run[k].bobBases,
                     run[k].bobResults)
       IN  /\ sifted' = s
           /\ aliceState' = [aliceState EXCEPT
                               !.text = <<"Sifting done. Kept bits.", Len(s.indices)>>]
           /\ bobState' = [bobState EXCEPT
                             !.text = <<"Sifting done. Kept bits.", Len(s.indices)>>]
    /\ run' = [run EXCEPT ![k].pc = "selectSample"]
    /\ classicalOut' = sendClassical(running, <<"ALICE bases", run[k].aliceBases>>,
                                     "alice", 1400)
    /\ quantumOut' = << >>
    /\ UNCHANGED << running, qkdRunning, qkdDone, revealedSample, qber, sharedKey,
                    demoUnusedVars >>

\* Step 5: the sample, chosen from the sifted state the closure holds.
DemoSample(k) ==
    /\ run[k].pc = "sample"
    /\ LET sampleIndices == DemoSampleIndices(run[k].sifted.indices)
           sampleReveal == [j \in 1..Len(sampleIndices) |->
                              [index |-> sampleIndices[j],
                               alice |-> run[k].aliceBits[sampleIndices[j] + 1],
                               bob |-> run[k].bobResults[sampleIndices[j] + 1]]]
       IN  /\ revealedSample' = sampleReveal
           /\ IF Len(sampleReveal) > 0
              THEN /\ run' = [run EXCEPT ![k].pc = "sampleAlice",
                                         ![k].sampleReveal = sampleReveal]
                   /\ classicalOut' = sendClassical(running,
                           <<"SAMPLE reveal indices", sampleIndices>>, "alice", 1200)
                   /\ UNCHANGED << qber, aliceState, bobState >>
              ELSE /\ run' = [run EXCEPT ![k].pc = "errorCorrection"]
                   /\ qber' = Some(ZeroQber)
                   /\ aliceState' = [aliceState EXCEPT !.text =
                        <<"Not enough sifted bits for sample - assuming 0% QBER (demo)">>]
                   /\ bobState' = [bobState EXCEPT !.text =
                        <<"Not enough sifted bits for sample - assuming 0% QBER (demo)">>]
                   /\ classicalOut' = << >>
    /\ quantumOut' = << >>
    /\ UNCHANGED << running, qkdRunning, qkdDone, sifted, sharedKey, demoUnusedVars >>

\* The QBER of a non-empty sample.
DemoQber(k) ==
    /\ run[k].pc = "qber"
    /\ LET q == SampleQber(run[k].sampleReveal)
       IN  /\ qber' = Some(q)
           /\ aliceState' = [aliceState EXCEPT !.text = <<"QBER sample shows", q>>]
           /\ bobState' = [bobState EXCEPT !.text = <<"QBER sample shows", q>>]
    /\ run' = [run EXCEPT ![k].pc = "errorCorrection"]
    /\ UNCHANGED << running, qkdRunning, qkdDone, sifted, revealedSample, sharedKey,
                    demoUnusedVars >>
    /\ NoPackets

\* Step 6: const correctedBobBits = [...sifted.aliceBits], of the closure
DemoCorrect(k) ==
    /\ run[k].pc = "correct"
    /\ sifted' = [sifted EXCEPT !.bobBits = run[k].sifted.aliceBits]
    /\ run' = [run EXCEPT ![k].pc = "privacyAmp"]
    /\ classicalOut' = sendClassical(running, <<"EC: syndrome exchanged (simulated)">>,
                                     "alice", 1200)
    /\ quantumOut' = << >>
    /\ UNCHANGED << running, qkdRunning, qkdDone, aliceState, bobState, revealedSample,
                    qber, sharedKey, demoUnusedVars >>

\* Step 7 ends: the key, the final state, and the activation returns.
DemoKey(k) ==
    /\ run[k].pc = "key"
    /\ \E draws \in [1..DemoKeyBytes -> LabelDraws] :
         LET fakeKey == makeRandomKey(draws)
         IN  /\ sharedKey' = Some(fakeKey)
             /\ aliceState' = [aliceState EXCEPT
                                 !.text = <<"Key established. Ti =", fakeKey>>,
                                 !.bits = << >>, !.bases = << >>]
             /\ bobState' = [bobState EXCEPT
                               !.text = <<"Key established. Ti =", fakeKey>>,
                               !.bases = << >>, !.results = << >>]
             /\ classicalOut' = sendClassical(running, <<"KEY_ESTABLISHED Ti", fakeKey>>,
                                              "alice", 1600)
    /\ sifted' = EmptySifted
    /\ revealedSample' = << >>
    /\ qber' = Null
    /\ qkdRunning' = FALSE
    /\ qkdDone' = TRUE
    /\ run' = SubSeq(run, 1, k - 1) \o SubSeq(run, k + 1, Len(run))
    /\ quantumOut' = << >>
    /\ UNCHANGED << running, demoUnusedVars >>

\* The continuations of the activations of runQKDDemo.
DemoStep ==
    \E k \in 1..Len(run) :
       \/ DemoPrepare(k) \/ DemoSendFirst(k) \/ DemoMeasure(k) \/ DemoNextPulse(k)
       \/ DemoText(k, "report", "reportBases", Null,
                   Some(<<"Reporting detected indices & bases (classical)">>),
                   sendClassical(running,
                       <<"REPORT indices", [j \in 1..DemoN |-> j - 1]>>, "alice", 1400))
       \/ DemoText(k, "reportBases", "reveal", Null, Null,
                   sendClassical(running, <<"REPORT bases", run[k].bobBases>>,
                                 "alice", 1400))
       \/ DemoText(k, "reveal", "sift",
                   Some(<<"Receiving report, revealing my bases for sifting...">>),
                   Null, << >>)
       \/ DemoSift(k)
       \/ DemoText(k, "selectSample", "sample",
                   Some(<<"Selecting sample bits for QBER estimation...">>),
                   Some(<<"Preparing sample reveal...">>), << >>)
       \/ DemoSample(k)
       \/ DemoText(k, "sampleAlice", "sampleBob", Null, Null,
                   sendClassical(running,
                       <<"SAMPLE alice", [j \in 1..Len(run[k].sampleReveal) |->
                                             run[k].sampleReveal[j].alice]>>,
                       "alice", 1200))
       \/ DemoText(k, "sampleBob", "qber", Null, Null,
                   sendClassical(running,
                       <<"SAMPLE bob", [j \in 1..Len(run[k].sampleReveal) |->
                                           run[k].sampleReveal[j].bob]>>,
                       "alice", 1200))
       \/ DemoQber(k)
       \/ DemoText(k, "errorCorrection", "correct",
                   Some(<<"Running (simulated) error correction...">>),
                   Some(<<"Applying corrections (simulated)...">>), << >>)
       \/ DemoCorrect(k)
       \/ DemoText(k, "privacyAmp", "key",
                   Some(<<"Privacy amplification: deriving final key (simulated)...">>),
                   Some(<<"Privacy amplification: deriving final key (simulated)...">>),
                   << >>)
       \/ DemoKey(k)

DemoNext ==
    \/ DemoEnter \/ DemoStop \/ runQKDDemo \/ DemoStep

DemoSpec == DemoInit /\ [][DemoNext]_vars

\* ------------------------------------------- the parameters at a run's start
\* Integers typed into the three numeric fields: below, at and above each
\* lower bound, and the defaults.
ParamQkdNValues == -1..(DefaultQkdN + 1)
ParamSampleSizeValues == -1..(DefaultSampleSize + 1)
ParamPulseIntervalValues ==
    {-1, 0, 50, MinPulseInterval, MinPulseInterval + 50, DefaultPulseIntervalMs}

\* The simulation view on a perfect channel, the fields holding any of these.
ParamInit ==
    /\ running = TRUE
    /\ qkdRunning = FALSE
    /\ qkdDone = FALSE
    /\ channelMode = "perfect" /\ noiseIndex = 0
    /\ noiseLocked = FALSE
    /\ aliceState = IdleAlice
    /\ bobState = IdleBob
    /\ sifted = EmptySifted
    /\ revealedSample = << >>
    /\ qber = Null
    /\ sharedKey = Null
    /\ qkdN \in ParamQkdNValues
    /\ pulseIntervalMs \in ParamPulseIntervalValues
    /\ qberSampleSize \in ParamSampleSizeValues
    /\ tampering = FALSE
    /\ signRunning = FALSE
    /\ currentStatus = <<"Not started">>
    /\ logs = << >>
    /\ classicalOut = << >>
    /\ quantumOut = << >>
    /\ run = IdleRun
    /\ sign = IdleSign

\* The start of a run alone: the snapshot and clamping of the parameters.
runInitializationParam == runInitializationWith(DefaultQkdN + 1, LabelDraws, FALSE)

ParamNext == runInitializationParam

ParamSpec == ParamInit /\ [][ParamNext]_vars

\* ================================================================== claims
\* The positions of a run at which the sifted set is published and Bob's sifted
\* bits are still his measured outcomes.
SiftedPcs == {"selectSample", "sample", "sampleAlice", "sampleBob", "qber",
              "errorCorrection", "correct"}
\* The positions of a run at which the sample has been revealed.
SampledPcs == {"sampleAlice", "sampleBob", "qber", "errorCorrection", "correct",
               "privacyAmp", "key", "phiBranch", "phiGen", "phiDeliver", "complete"}

\* Mismatching pairs of the revealed sample, counted on the published state.
RevealedErrors ==
    Cardinality({k \in 1..Len(revealedSample) :
                    revealedSample[k].alice # revealedSample[k].bob})

\* C1: every run started with tampering active ends by the abort of the QBER
\* step, with sharedKey null and qkdDone false.
C1_TamperedRunAborts ==
    [][(qkdRunning /\ run.tampering /\ ~qkdRunning')
          => (run.pc = "qber" /\ sharedKey' = Null /\ qkdDone' = FALSE)]_vars

\* C2: whenever sharedKey is non-null its length is at least 2*N, N being the
\* clamped pulse count of the run that produced it (the number of bits Alice
\* prepared, which stays published with the key).
C2_KeyLength ==
    /\ qkdRunning => /\ run.N = ClampN(qkdN)
                     /\ Len(aliceState.bits) = run.N
    /\ ~IsNull(sharedKey) =>
          /\ Len(aliceState.bits) >= 1
          /\ Len(Val(sharedKey)) >= 2 * Len(aliceState.bits)

C2_Witness ==
    /\ ~IsNull(sharedKey) /\ qkdDone /\ ~qkdRunning
    /\ Len(aliceState.bits) = 2 /\ Len(sifted.indices) = 2

\* C3: a run without tampering leaves only through normal completion: error
\* correction, key derivation and the phi exchange have run, sharedKey is
\* non-null and qkdDone is true, whatever the noise and the measured QBER.
C3_UntamperedRunCompletes ==
    [][(qkdRunning /\ ~run.tampering /\ ~qkdRunning')
          => /\ run.pc = "complete"
             /\ qkdDone' = TRUE
             /\ ~IsNull(sharedKey')
             /\ ~IsNull(qber')
             /\ sifted'.bobBits = sifted'.aliceBits
             /\ aliceState'.phi # << >>
             /\ bobState'.phi = aliceState'.phi]_vars

\* a completed untampered run whose measured QBER was 100%
C3_Witness ==
    /\ qkdDone /\ ~tampering /\ ~IsNull(sharedKey)
    /\ ~IsNull(qber) /\ Val(qber).num = Val(qber).den

\* C4: the sifted set keeps index i iff Alice's and Bob's bases at i are equal,
\* lists the kept indices in increasing order, and pairs each with Alice's bit
\* and Bob's measured outcome at that index.
C4_Sifting ==
    (qkdRunning /\ run.pc \in SiftedPcs) =>
        LET idx == sifted.indices
        IN  /\ \A i \in 0..(run.N - 1) :
                  (\E k \in 1..Len(idx) : idx[k] = i)
                      <=> (aliceState.bases[i + 1] = bobState.bases[i + 1])
            /\ \A k \in 1..Len(idx) : idx[k] \in 0..(run.N - 1)
            /\ \A k, l \in 1..Len(idx) : k < l => idx[k] < idx[l]
            /\ Len(sifted.aliceBits) = Len(idx) /\ Len(sifted.bobBits) = Len(idx)
            /\ \A k \in 1..Len(idx) :
                  /\ sifted.aliceBits[k] = aliceState.bits[idx[k] + 1]
                  /\ sifted.bobBits[k] = bobState.results[idx[k] + 1]

\* bases differ at index 0 and agree at index 1: only index 1 is kept, with a
\* measured outcome that differs from Alice's bit
C4_Witness ==
    /\ qkdRunning /\ run.pc = "selectSample"
    /\ sifted.indices = <<1>>
    /\ sifted.aliceBits # sifted.bobBits

\* C5: with effective noise 0 and no tampering every sifted pair has equal
\* bits before error correction, and the QBER of any sample is 0.
C5_IdealChannel ==
    (EffectiveNoise(channelMode, noiseIndex) = 0 /\ ~tampering) =>
        /\ qkdRunning => (run.noise = 0 /\ ~run.tampering)
        /\ sifted.aliceBits = sifted.bobBits
        /\ \A k \in 1..Len(revealedSample) : revealedSample[k].alice = revealedSample[k].bob
        /\ ~IsNull(qber) => Val(qber).num = 0

C5_Witness ==
    /\ EffectiveNoise(channelMode, noiseIndex) = 0 /\ ~tampering
    /\ qkdRunning /\ run.pc = "errorCorrection"
    /\ Len(sifted.indices) = 2 /\ Len(revealedSample) = 2 /\ ~IsNull(qber)

\* C6 as stated: the recorded QBER is the number of mismatching sample pairs
\* divided by sampleSize, and 0 when sampleSize is 0.
C6_QberOverSampleSize ==
    ~IsNull(qber) =>
        LET sampleSize == ClampSampleSize(qberSampleSize)
        IN  IF sampleSize = 0 THEN Val(qber).num = 0
            ELSE Val(qber).num * sampleSize = RevealedErrors * Val(qber).den

\* C6 amended: the recorded QBER is the number of mismatching sample pairs
\* divided by the number of revealed pairs, and 0 when no pair is revealed (as
\* when sampleSize is 0); it is mismatches / sampleSize whenever at least
\* sampleSize pairs were sifted.
C6_QberOverRevealed ==
    /\ qkdRunning => run.sampleSize = ClampSampleSize(qberSampleSize)
    /\ ~IsNull(qber) =>
        LET sampleSize == ClampSampleSize(qberSampleSize)
            q == Val(qber)
        IN  /\ q.den > 0
            /\ IF Len(revealedSample) = 0 THEN q.num = 0
               ELSE q.num * Len(revealedSample) = RevealedErrors * q.den
            /\ sampleSize = 0 => q.num = 0
            /\ (sampleSize > 0 /\ Len(sifted.indices) >= sampleSize)
                  => q.num * sampleSize = RevealedErrors * q.den

\* fewer sifted pairs than sampleSize, and the one revealed pair mismatches
C6_Witness ==
    /\ ~IsNull(qber)
    /\ Len(revealedSample) = 1 /\ ClampSampleSize(qberSampleSize) = 2
    /\ RevealedErrors = 1

\* C7: the revealed sample is the first min(sampleSize, number of sifted pairs)
\* sifted pairs in index order, each with Alice's bit and Bob's measured
\* (uncorrected) outcome at its index.
C7_SampleIsPrefix ==
    (qkdRunning /\ run.pc \in SampledPcs) =>
        /\ Len(revealedSample) = Min(run.sampleSize, Len(sifted.indices))
        /\ \A k \in 1..Len(revealedSample) :
              /\ revealedSample[k].index = sifted.indices[k]
              /\ revealedSample[k].alice = aliceState.bits[sifted.indices[k] + 1]
              /\ revealedSample[k].bob = bobState.results[sifted.indices[k] + 1]

\* sampleSize 1 of two sifted pairs, after error correction: the sample still
\* shows Bob's measured outcome
C7_Witness ==
    /\ qkdRunning /\ run.pc = "privacyAmp"
    /\ Len(sifted.indices) = 2 /\ Len(revealedSample) = 1
    /\ revealedSample[1].index = 0
    /\ revealedSample[1].bob # revealedSample[1].alice
    /\ sifted.bobBits = sifted.aliceBits

\* C8: the QBER step of a tampered run records the 'eavesdrop detected' reason
\* exactly when qber <= 0.45 and the 'high QBER' reason exactly when
\* qber > 0.45; either way the run is over, no later phase has run, and
\* qkdRunning and the noise lock are released.
C8_AbortReasons ==
    [][(qkdRunning /\ run.pc = "qber" /\ run.tampering) =>
          /\ ~IsNull(qber')
          /\ LET q == Val(qber')
                 low == 100 * q.num <= 45 * q.den
             IN  /\ (currentStatus' = <<"Eavesdrop detected - aborting initialization">>) <=> low
                 /\ (currentStatus' = <<"High QBER (>45%) - aborting initialization">>) <=> ~low
                 /\ logs'[Len(logs')] = currentStatus'
          /\ run'.pc = "idle"
          /\ qkdRunning' = FALSE /\ noiseLocked' = FALSE /\ qkdDone' = FALSE
          /\ sharedKey' = Null
          /\ sifted' = sifted
          /\ aliceState'.phi = << >> /\ bobState'.phi = << >>]_vars

\* an abort with the sample QBER at 50%
C8_Witness ==
    /\ ~qkdRunning /\ tampering
    /\ currentStatus = <<"High QBER (>45%) - aborting initialization">>
    /\ ~IsNull(qber) /\ Val(qber).num = 1 /\ Val(qber).den = 2

\* C9: at most one run is active, and while it is active no step starts one:
\* the activation is not re-entered and the key, the sifted data, Alice's
\* prepared bits, the flags and the log are not reset.
C9_SingleRun ==
    /\ [](qkdRunning <=> run.pc # "idle")
    /\ [][qkdRunning =>
            /\ run'.pc = "send" => run' = run
            /\ ~IsNull(sharedKey) => sharedKey' = sharedKey
            /\ sifted.indices # << >> => sifted'.indices = sifted.indices
            /\ aliceState'.bits = aliceState.bits
            /\ aliceState'.bases = aliceState.bases
            /\ Len(bobState'.results) >= Len(bobState.results)
            /\ ~IsNull(qber) => qber' = qber
            /\ Len(logs') >= Len(logs)
            /\ (logs' # logs /\ logs' # << >>)
                  => logs'[Len(logs')] # <<"Initialization started">>
            /\ qkdRunning' => noiseLocked']_vars

C9_Witness ==
    /\ qkdRunning /\ run.pc = "phiDeliver" /\ ~IsNull(sharedKey) /\ signRunning

\* C10: a signature simulation starts only when qkdDone holds, no run is active
\* and no signature simulation is in flight; so at most one is ever in flight.
C10_SignGuard ==
    /\ [](signRunning <=> sign.pc # "idle")
    /\ [][(sign'.pc = "computing" /\ sign.pc # "computing")
            => (qkdDone /\ ~qkdRunning /\ ~signRunning /\ sign.pc = "idle")]_vars

C10_Witness ==
    /\ signRunning /\ sign.pc = "outcome" /\ qkdDone /\ ~qkdRunning

\* The last two entries of a log.
LastTwo(l) == IF Len(l) >= 2 THEN SubSeq(l, Len(l) - 1, Len(l)) ELSE l

\* C11: the outcome of a signature simulation is decided by the tamper flag it
\* was started with, which no click can change while it is in flight: with
\* the flag on the verification fails (integrity-violation line and 'signature
\* invalid' status logged, nothing accepted), with the flag off the signature
\* is accepted (no tamper line).
C11_SignOutcome ==
    /\ [][(sign.pc = "idle" /\ sign'.pc # "idle") => sign'.tampering = tampering]_vars
    /\ [][signRunning => /\ (sign'.pc # "idle" => sign'.tampering = sign.tampering)
                         /\ (tampering' => tampering)]_vars
    /\ [][(sign.pc = "outcome" /\ sign'.pc = "idle") =>
            /\ signRunning' = FALSE
            /\ IF sign.tampering
               THEN /\ currentStatus' = <<"Tampering detected during QIBS - signature invalid">>
                    /\ LastTwo(logs') =
                         << <<"Tampering detected in QIBS: Bob's computed P != received P - message integrity compromised">>,
                            <<"Tampering detected during QIBS - signature invalid">> >>
                    /\ bobState'.text = <<"Verification failed - tampering detected (|P> mismatch)">>
               ELSE /\ currentStatus' = <<"Signature accepted by SKG/Bob">>
                    /\ LastTwo(logs') =
                         << <<"Signature accepted by SKG/Bob">>,
                            <<"Bob computed P matches received P - message accepted (simulated)">> >>
                    /\ bobState'.text = <<"Verification complete - signature accepted">>]_vars

\* tampering switched on after a completed untampered run, then a signature
\* that failed
C11_Witness ==
    /\ qkdDone /\ ~IsNull(sharedKey) /\ bobState.phi # << >>
    /\ tampering /\ ~signRunning
    /\ currentStatus = <<"Tampering detected during QIBS - signature invalid">>

\* C12 as stated: the stop command can be issued in every state of the
\* simulation, a run being active or not, a signature being in flight or not.
C12_StopAlwaysAvailable == running => ENABLED Stop

\* C12 amended: the stop command can be issued exactly when the simulation
\* view is shown and no run is active; a signature simulation in flight does
\* not prevent it, an active run does.
C12_StopAvailability ==
    /\ ENABLED Stop <=> (running /\ ~qkdRunning)
    /\ qkdRunning => ~ENABLED Stop
    /\ (running /\ signRunning /\ ~qkdRunning) => ENABLED Stop

\* stop was issued while a signature simulation was in flight
C12_Witness ==
    /\ ~running /\ signRunning /\ sign.pc = "sendS"
    /\ currentStatus = <<"Stopped">>

\* C13: once stop has been issued (the engine is back in the menu view) all run
\* state is idle - no run active, no signature in flight, qkdDone false,
\* sharedKey and qber null, sifted data, sample and log empty, tamper off - and
\* stays so: whatever was unfinished performs no further state update and
\* emits no further log or channel event.
C13_StopDiscardsEverything ==
    ~running =>
        /\ ~qkdRunning /\ ~signRunning /\ ~qkdDone
        /\ sign.pc = "idle" /\ run.pc = "idle"
        /\ IsNull(sharedKey) /\ IsNull(qber)
        /\ sifted = EmptySifted /\ revealedSample = << >>
        /\ aliceState = IdleAlice /\ bobState = IdleBob
        /\ logs = << >>
        /\ ~tampering
        /\ currentStatus \in {<<"Not started">>, <<"Stopped">>}
        /\ classicalOut = << >> /\ quantumOut = << >>

\* C14 as stated: stop issued when no run and no signature is active leaves
\* the engine state unchanged.
C14_StopOnIdleChangesNothing ==
    [][(running /\ ~running' /\ ~qkdRunning /\ ~signRunning)
          => UNCHANGED << engineVars, paramVars >>]_vars

\* C14 amended: stop always ends in the same stopped state, whatever it
\* started from, logs no abort event (the log is emptied), and cannot be issued
\* again from there: a repeated stop is a no-op.  Issued in the simulation
\* view with no run and no signature active it does change the state (it
\* leaves the view and sets the status to 'Stopped').
C14_StopResult ==
    /\ [](~running => ~ENABLED Stop)
    /\ [][(running /\ ~running') =>
            /\ ~qkdRunning' /\ ~qkdDone' /\ ~noiseLocked' /\ ~tampering'
            /\ channelMode' = "null" /\ noiseIndex' = DefaultNoiseIndex
            /\ IsNull(sharedKey') /\ IsNull(qber')
            /\ aliceState' = IdleAlice /\ bobState' = IdleBob
            /\ sifted' = EmptySifted /\ revealedSample' = << >>
            /\ currentStatus' = <<"Stopped">>
            /\ logs' = << >>
            /\ classicalOut' = << >> /\ quantumOut' = << >>
            /\ UNCHANGED << qkdN, pulseIntervalMs, qberSampleSize, signRunning, sign, run >>]_vars

\* stop issued on an engine with no run and no signature active, right after
\* the simulation view was entered
C14_Witness ==
    /\ ~running /\ ~signRunning /\ ~qkdRunning /\ sign.pc = "idle"
    /\ currentStatus = <<"Stopped">> /\ qkdN = 1

\* C15: while a run is active the values it works with are those snapshotted
\* at its start - N, pulse interval, sample size, noise level and tamper
\* flag - and no action enabled during the run changes the parameter
\* fields, the channel mode, the noise level or the tamper flag.
C15_ParametersLocked ==
    /\ [](qkdRunning =>
            /\ run.N = ClampN(qkdN)
            /\ run.sampleSize = ClampSampleSize(qberSampleSize)
            /\ run.noise = EffectiveNoise(channelMode, noiseIndex)
            /\ run.tampering = tampering
            /\ run.pulseInterval = ClampPulseInterval(pulseIntervalMs))
    /\ [][(qkdRunning /\ qkdRunning') =>
            /\ run'.N = run.N /\ run'.sampleSize = run.sampleSize
            /\ run'.noise = run.noise /\ run'.tampering = run.tampering
            /\ run'.pulseInterval = run.pulseInterval
            /\ UNCHANGED << qkdN, pulseIntervalMs, qberSampleSize, channelMode,
                            noiseIndex, tampering >>]_vars
    /\ [][(~qkdRunning /\ qkdRunning') =>
            /\ run'.N = ClampN(qkdN)
            /\ run'.pulseInterval = ClampPulseInterval(pulseIntervalMs)
            /\ run'.sampleSize = ClampSampleSize(qberSampleSize)
            /\ run'.noise = EffectiveNoise(channelMode, noiseIndex)
            /\ run'.tampering = tampering]_vars

\* a tampered run on a noisy channel with edited parameters, past its pulses
C15_Witness ==
    /\ qkdRunning /\ run.pc = "key" /\ run.tampering /\ run.noise = 100
    /\ qkdN = 1 /\ qberSampleSize = -1 /\ pulseIntervalMs = 50

\* C16: the parameter lock is held exactly while a run is active: in every
\* state noiseLocked equals qkdRunning; every exit of a run (either abort
\* reason, normal completion, completion with phi withheld) and stop release
\* it.
C16_LockWhileRunning ==
    /\ [](noiseLocked <=> qkdRunning)
    /\ [][(qkdRunning /\ ~qkdRunning') => (noiseLocked /\ ~noiseLocked')]_vars
    /\ [][(running /\ ~running') => ~noiseLocked']_vars

\* the lock released by the exit with phi withheld
C16_Witness ==
    /\ ~qkdRunning /\ ~noiseLocked /\ running
    /\ currentStatus = <<"Initialization complete (tampering active - phi withheld)">>

\* C17: the tamper request takes effect only outside a run: while a run is
\* active no step switches the tamper flag or logs the tamper lines, and with
\* the engine idle in the simulation view (no run, no signature, flag off) the
\* request can be made and sets the flag, the status and the two log lines.
C17_TamperOnlyWhenIdle ==
    /\ [][qkdRunning =>
            /\ tampering' = tampering
            /\ currentStatus' # <<"Eavesdropping...">>
            /\ (logs' # logs /\ logs' # << >>)
                  => logs'[Len(logs')] # <<"Tamper/Eavesdrop engaged - attacker active">>]_vars
    /\ []((running /\ ~qkdRunning /\ ~signRunning /\ ~tampering)
              => ENABLED handleTamperClick)
    /\ [][(~tampering /\ tampering') =>
            /\ running /\ ~qkdRunning /\ ~signRunning
            /\ currentStatus' = <<"Eavesdropping...">>
            /\ LastTwo(logs') = << <<"Eavesdropping...">>,
                                   <<"Tamper/Eavesdrop engaged - attacker active">> >>
            /\ UNCHANGED << running, qkdRunning, qkdDone, sharedKey, sifted, qber,
                            paramVars, noiseLocked, run, sign >>]_vars

\* the flag set between two runs: after an untampered run has completed
C17_Witness ==
    /\ tampering /\ qkdDone /\ ~qkdRunning /\ ~signRunning
    /\ currentStatus = <<"Eavesdropping...">>

\* C18: at run start every supplied integer is clamped to the nearest valid
\* bound: N to max(1, N), the pulse interval to max(100, interval), the sample
\* size to max(0, sampleSize).
C18_ClampedToNearestBound ==
    qkdRunning =>
        /\ run.N = Max(1, qkdN)
        /\ run.pulseInterval = Max(MinPulseInterval, pulseIntervalMs)
        /\ run.sampleSize = Max(0, qberSampleSize)

\* C19: a parameter value that is already valid is used unchanged by the run;
\* a supplied sample size of 0 gives the effective sample size 0.
C19_ValidValueUnchanged ==
    qkdRunning =>
        /\ qkdN >= 1 => run.N = qkdN
        /\ pulseIntervalMs >= MinPulseInterval => run.pulseInterval = pulseIntervalMs
        /\ qberSampleSize >= 0 => run.sampleSize = qberSampleSize
        /\ qberSampleSize = 0 => run.sampleSize = 0

\* The measurement loop replayed from a sequence d of draws, from position p
\* and pulse i on, as far as d goes: per pulse Bob's basis, the noise test, a
\* bit where the outcome is random, the flip test where tampering is on.
RECURSIVE ReplayPulses(_, _, _, _, _)
ReplayPulses(c, d, p, i, acc) ==
    IF i >= c.N \/ p > Len(d) THEN acc
    ELSE LET bB == IF d[p] < 50 THEN "Z" ELSE "X"
             bases == Append(acc.bases, bB)
         IN  IF p + 1 > Len(d) THEN [acc EXCEPT !.bases = bases]
             ELSE LET random == d[p + 1] < c.noise \/ bB # c.aliceBases[i + 1]
                      raw == IF random THEN (IF d[p + 2] < 50 THEN 0 ELSE 1)
                             ELSE c.aliceBits[i + 1]
                      q == IF random THEN p + 3 ELSE p + 2
                      flip == c.tampering /\ d[q] < 50
                      y == IF flip THEN 1 - raw ELSE raw
                  IN  ReplayPulses(c, d, IF c.tampering THEN q + 1 ELSE q, i + 1,
                                   [bases |-> bases,
                                    results |-> Append(acc.results, y),
                                    flips |-> IF flip THEN acc.flips + 1 ELSE acc.flips,
                                    raws |-> Append(acc.raws, raw),
                                    coins |-> Append(acc.coins, flip)])

\* Alice's bits and bases as a function of the number of pulses and the draws.
ReplayAlice(N, d) ==
    [bits |-> [j \in 1..N |-> IF d[2 * j - 1] < 50 THEN 0 ELSE 1],
     bases |-> [j \in 1..N |-> IF d[2 * j] < 50 THEN "Z" ELSE "X"]]

\* Bob's bases and outcomes and the flip count as a function of the parameters
\* and the draws.
ReplayBob(N, noise, isTampering, d) ==
    ReplayPulses([N |-> N, noise |-> noise, tampering |-> isTampering,
                  aliceBits |-> ReplayAlice(N, d).bits,
                  aliceBases |-> ReplayAlice(N, d).bases],
                 d, 2 * N + 1, 0, [bases |-> << >>, results |-> << >>, flips |-> 0,
                                   raws |-> << >>, coins |-> << >>])

\* The sifted set, the sample and the QBER of the replayed measurements.
ReplaySifted(N, noise, isTampering, d) ==
    Sift(N, ReplayAlice(N, d).bits, ReplayAlice(N, d).bases,
         ReplayBob(N, noise, isTampering, d).bases,
         ReplayBob(N, noise, isTampering, d).results)

ReplaySample(N, noise, isTampering, sampleSize, d) ==
    SampleReveal(ReplaySifted(N, noise, isTampering, d).indices, sampleSize,
                 ReplayAlice(N, d).bits, ReplayBob(N, noise, isTampering, d).results)

\* C20: the data of a run are a function of its parameters and of the sequence
\* of its random draws: Alice's bits and bases, Bob's bases and outcomes, the
\* tamper-flip count, the sifted pairs, the revealed sample and the QBER are
\* those the replay of the draws gives, so two runs with the same parameters
\* and draws agree on all of them.
C20_Determinism ==
    (qkdRunning /\ run.recording) =>
        LET N == ClampN(qkdN)
            noise == EffectiveNoise(channelMode, noiseIndex)
            sampleSize == ClampSampleSize(qberSampleSize)
            d == run.draws
            bob == ReplayBob(N, noise, tampering, d)
        IN  /\ aliceState.bits = ReplayAlice(N, d).bits
            /\ aliceState.bases = ReplayAlice(N, d).bases
            /\ bobState.bases = bob.bases /\ bobState.results = bob.results
            /\ run.tamperIntroducedCount = bob.flips
            /\ run.pc \in SiftedPcs => sifted = ReplaySifted(N, noise, tampering, d)
            /\ run.pc \in SampledPcs =>
                  revealedSample = ReplaySample(N, noise, tampering, sampleSize, d)
            /\ ~IsNull(qber) =>
                  Val(qber) = SampleQber(ReplaySample(N, noise, tampering, sampleSize, d))

\* a tampered run on a noisy channel about to compute its QBER: two pulses,
\* one of them with a random outcome, one flipped, both sifted and revealed
C20_Witness ==
    /\ qkdRunning /\ run.recording /\ run.pc = "qber"
    /\ run.N = 2 /\ run.noise = DefaultNoiseIndex /\ run.tampering
    /\ run.tamperIntroducedCount = 1
    /\ Len(run.draws) = 11
    /\ Len(revealedSample) = 2

\* C21: a signature simulation is in flight only while the key of the most
\* recent run is held and qkdDone is true; a run that starts discards it, so
\* no signature is in flight while a run is active or once the key is cleared.
C21_SignatureNeedsKey ==
    /\ [](signRunning => (~IsNull(sharedKey) /\ qkdDone /\ ~qkdRunning))
    /\ [][(~qkdRunning /\ qkdRunning') => (~signRunning' /\ sign'.pc = "idle")]_vars

C23_ErrorCorrectionFrame ==
    /\ [](run.pc \in {"errorCorrection", "correct"} =>
            /\ qkdRunning /\ ~IsNull(qber)
            /\ currentStatus \notin {AbortStatus([num |-> 0, den |-> 1]),
                                      AbortStatus([num |-> 1, den |-> 1])}
            /\ (run.tampering => revealedSample = << >>))
    /\ [][run.pc = "correct" =>
            /\ sifted'.bobBits = sifted.aliceBits
            /\ sifted'.indices = sifted.indices
            /\ sifted'.aliceBits = sifted.aliceBits
            /\ revealedSample' = revealedSample
            /\ qber' = qber]_vars

\* after the correction of two sifted pairs, both sampled, one of them in error
C23_Witness ==
    /\ qkdRunning /\ run.pc = "privacyAmp"
    /\ Len(sifted.indices) = 2 /\ Len(revealedSample) = 2
    /\ \E k \in 1..2 : revealedSample[k].bob # revealedSample[k].alice
    /\ qber[1].num > 0
    /\ sifted.bobBits = sifted.aliceBits

\* C24: the tamper-flip counter of a run equals the number of pulses measured
\* so far whose tamper coin-flip said flip: it is 0 without tampering, lies
\* between 0 and N with it, equals N when all N coin-flips said flip, and the
\* final outcome of each pulse is the complement of its pre-tamper outcome if
\* it was flipped and the pre-tamper outcome otherwise.
C24_TamperFlipCount ==
    (qkdRunning /\ run.recording) =>
        LET N == ClampN(qkdN)
            bob == ReplayBob(N, EffectiveNoise(channelMode, noiseIndex),
                             tampering, run.draws)
            n == Len(bobState.results)
            flipped == {k \in 1..n : bob.coins[k]}
        IN  /\ Len(bob.coins) = n /\ Len(bob.raws) = n /\ n <= N
            /\ run.tamperIntroducedCount = Cardinality(flipped)
            /\ run.tamperIntroducedCount \in 0..N
            /\ ~tampering => run.tamperIntroducedCount = 0
            /\ (n = N /\ flipped = 1..N) => run.tamperIntroducedCount = N
            /\ \A k \in 1..n :
                  bobState.results[k] = IF k \in flipped THEN 1 - bob.raws[k]
                                        ELSE bob.raws[k]

\* both pulses of a tampered two-pulse run flipped
C24_Witness ==
    /\ qkdRunning /\ run.recording /\ run.pc = "report"
    /\ run.N = 2 /\ run.tampering
    /\ Len(bobState.results) = 2
    /\ run.tamperIntroducedCount = 2

\* C25: the 'tampering active - phi withheld' ending is unreachable: a run with
\* tampering active never stands at error correction, key derivation or the
\* phi stage, and the status of that ending is never shown.
C25_PhiWithheldUnreachable ==
    /\ currentStatus # <<"Initialization complete (tampering active - phi withheld)">>
    /\ (qkdRunning /\ run.tampering) =>
          run.pc \notin {"errorCorrection", "correct", "privacyAmp", "key",
                         "phiBranch", "phiGen", "phiDeliver", "complete"}

\* The phase the next step of a run belongs to: 2 Measuring, 3 Sifting,
\* 4 Estimating, 5 ErrorCorrecting, 6 DerivingKey, 7 ExchangingPhi (Preparing,
\* phase 1, is done by the click itself), 0 with no run.
Phase(pc) ==
    CASE pc \in {"send", "measure", "pause", "report"} -> 2
      [] pc \in {"bobBases", "sift"} -> 3
      [] pc \in {"selectSample", "sample", "sampleAlice", "sampleBob", "qber"} -> 4
      [] pc \in {"errorCorrection", "correct"} -> 5
      [] pc \in {"privacyAmp", "key"} -> 6
      [] pc \in {"phiBranch", "phiGen", "phiDeliver", "complete"} -> 7
      [] OTHER -> 0

\* C26: the phases of a run execute in the order Preparing, Measuring, Sifting,
\* Estimating, then either Aborted or ErrorCorrecting, DerivingKey,
\* ExchangingPhi, Done: a run starts with Alice's data prepared and measuring
\* next, each step stays in its phase or enters the next one, a run ends either
\* by an abort of the estimation or as Done after the phi exchange, sharedKey is
\* set only by key derivation with the QBER recorded, and qkdDone becomes true
\* only with phi delivered to Bob.
C26_PhaseOrder ==
    [][/\ (~qkdRunning /\ qkdRunning') =>
             /\ Phase(run'.pc) = 2
             /\ Len(aliceState'.bits) = run'.N
             /\ sharedKey' = Null /\ ~qkdDone'
       /\ (qkdRunning /\ qkdRunning') =>
             Phase(run'.pc) \in {Phase(run.pc), Phase(run.pc) + 1}
       /\ (qkdRunning /\ ~qkdRunning') =>
             \/ /\ Phase(run.pc) = 4
                /\ sharedKey' = Null /\ ~qkdDone'
             \/ /\ Phase(run.pc) = 7
                /\ qkdDone' /\ bobState'.phi # << >>
       /\ (sharedKey' # sharedKey /\ ~IsNull(sharedKey')) =>
             /\ Phase(run.pc) = 6 /\ ~IsNull(qber)
       /\ (~qkdDone /\ qkdDone') => bobState.phi # << >>
      ]_vars

\* C27: within the measurement phase pulses are processed in increasing index
\* order: Bob chooses the basis of pulse i only when the outcomes of pulses
\* 0..i-1 are in his results; an outcome is appended for the pulse whose basis
\* was chosen last, together with its counter increment; outcomes already
\* appended and the counter do not change in any other step of the run.
C27_PulseOrder ==
    /\ [](qkdRunning =>
            /\ bobState.bases = run.bobBases /\ bobState.results = run.bobResults
            /\ run.tamperIntroducedCount <= Len(bobState.results)
            /\ run.pc = "measure" =>
                  Len(bobState.bases) = run.i + 1 /\ Len(bobState.results) = run.i
            /\ run.pc = "pause" =>
                  Len(bobState.bases) = run.i + 1 /\ Len(bobState.results) = run.i + 1)
    /\ [][(qkdRunning /\ qkdRunning') =>
            /\ bobState'.bases # bobState.bases =>
                  /\ \E b \in {"Z", "X"} : bobState'.bases = Append(bobState.bases, b)
                  /\ Len(bobState.results) = Len(bobState.bases)
                  /\ run'.i = Len(bobState.bases)
                  /\ bobState'.results = bobState.results
            /\ bobState'.results # bobState.results =>
                  /\ \E y \in {0, 1} : bobState'.results = Append(bobState.results, y)
                  /\ run.i = Len(bobState.results) /\ run'.i = run.i
                  /\ bobState'.bases = bobState.bases
            /\ run'.tamperIntroducedCount # run.tamperIntroducedCount =>
                  /\ run'.tamperIntroducedCount = run.tamperIntroducedCount + 1
                  /\ Len(bobState'.results) = Len(bobState.results) + 1]_vars

\* Bob has chosen the basis of pulse 1 with the flipped outcome of pulse 0
\* appended and counted
C27_Witness ==
    /\ qkdRunning /\ run.pc = "measure" /\ run.i = 1 /\ run.tampering
    /\ Len(bobState.bases) = 2 /\ Len(bobState.results) = 1
    /\ run.tamperIntroducedCount = 1

\* C28: once the measurement phase of a run is complete, Alice's bits, Alice's
\* bases, Bob's bases and Bob's results all have length N, the clamped pulse
\* count; throughout a run every bit is 0 or 1 and every basis Z or X.
C28_ListLengths ==
    qkdRunning =>
        /\ run.pc \notin {"send", "measure", "pause"} =>
              /\ Len(aliceState.bits) = ClampN(qkdN)
              /\ Len(aliceState.bases) = ClampN(qkdN)
              /\ Len(bobState.bases) = ClampN(qkdN)
              /\ Len(bobState.results) = ClampN(qkdN)
        /\ \A k \in 1..Len(aliceState.bits) : aliceState.bits[k] \in {0, 1}
        /\ \A k \in 1..Len(bobState.results) : bobState.results[k] \in {0, 1}
        /\ \A k \in 1..Len(aliceState.bases) : aliceState.bases[k] \in {"Z", "X"}
        /\ \A k \in 1..Len(bobState.bases) : bobState.bases[k] \in {"Z", "X"}

\* the measurement of two pulses just completed
C28_Witness ==
    /\ qkdRunning /\ run.pc = "report" /\ ClampN(qkdN) = 2
    /\ Len(aliceState.bits) = 2 /\ Len(bobState.results) = 2
    /\ Len(bobState.bases) = 2

\* C29: in every run the classical notification with Bob's bases is sent
\* before the one with Alice's bases, and both before the sifted set is
\* computed and published: Bob's is sent by the step before the sifting step
\* with nothing sifted yet, Alice's by the sifting step itself, which then
\* publishes the sifted set; no other step of a run sends a bases notification
\* and no earlier step publishes a sifted set.
C29_BasesBeforeSifting ==
    /\ []((qkdRunning /\ run.pc \in {"send", "measure", "pause", "report",
                                     "bobBases", "sift"})
             => (sifted = EmptySifted /\ run.keepIndices = << >>))
    /\ [][/\ run.pc = "bobBases" =>
                /\ classicalOut' = << [content |-> <<"Bases", bobState.bases>>,
                                       color |-> "#1976d2", start |-> "right",
                                       duration |-> run.pulseInterval] >>
                /\ run'.pc = "sift" /\ sifted' = EmptySifted
          /\ run.pc = "sift" =>
                /\ classicalOut' = << [content |-> <<"Bases", aliceState.bases>>,
                                       color |-> "#1976d2", start |-> "left",
                                       duration |-> run.pulseInterval] >>
                /\ run'.pc = "selectSample"
                /\ sifted' = Sift(run.N, aliceState.bits, aliceState.bases,
                                  bobState.bases, bobState.results)
          /\ (run'.pc = "sift" /\ run.pc # "sift") => run.pc = "bobBases"
          /\ (classicalOut' # << >> /\ classicalOut'[1].content[1] = "Bases") =>
                run.pc \in {"bobBases", "sift"}
         ]_vars

\* the sifting step of a two-pulse run has sent Alice's bases and published
\* two sifted pairs
C29_Witness ==
    /\ qkdRunning /\ run.pc = "selectSample"
    /\ Len(sifted.indices) = 2
    /\ classicalOut # << >>
    /\ classicalOut[1].content = <<"Bases", aliceState.bases>>
    /\ classicalOut[1].start = "left"

\* C30: every signature simulation sends exactly three quantum-channel
\* notifications, |P> then |S> then |ID>: each of its three sending steps
\* hands its packet to the quantum channel and passes to the next, no other
\* step of the signature hands over a packet, and the verification outcome,
\* which ends the signature, comes only after the three steps.
C30_ThreeNotifications ==
    [][sign'.pc # sign.pc =>
         LET Packet(label) == << [content |-> <<label>>, color |-> "#9c27b0",
                                  start |-> "left",
                                  duration |-> SignPacketDuration] >>
         IN  /\ sign.pc = "sendP" => (quantumOut' = Packet("|P>") /\ sign'.pc = "sendS")
             /\ sign.pc = "sendS" => (quantumOut' = Packet("|S>") /\ sign'.pc = "sendID")
             /\ sign.pc = "sendID" =>
                   (quantumOut' = Packet("|ID>") /\ sign'.pc = "receivedP")
             /\ sign.pc \notin {"sendP", "sendS", "sendID"} => quantumOut' = << >>
             /\ sign'.pc = "sendP" => sign.pc = "computed"
             /\ sign'.pc = "outcome" => sign.pc = "decrypting"
             /\ (signRunning /\ ~signRunning') => sign.pc = "outcome"
      ]_vars

\* C31: the event log does not depend on the bits of the shared key: the step
\* that draws the key appends one entry, fixed by the pulse count and the
\* number of sifted pairs (it carries the key's length), whatever bits were
\* drawn, and the entries the later steps of the run append are fixed by the
\* run's tamper flag and phi token, so two runs that differ only in the key
\* bits have the same log.
C31_LogIgnoresKeyBits ==
    [][(qkdRunning /\ run'.pc # run.pc) =>
         /\ run.pc = "key" =>
               /\ ~IsNull(sharedKey')
               /\ logs' = addLog(logs,
                             <<"Simulated shared key established (length bits)",
                               DesiredLen(run.N, sifted.aliceBits)>>)
               /\ Len(Val(sharedKey')) = DesiredLen(run.N, sifted.aliceBits)
         /\ run.pc = "phiBranch" =>
               logs' = addLog(logs,
                         IF run.tampering
                         THEN <<"Initialization complete (tampering active - phi withheld)">>
                         ELSE <<"generating random phi">>)
         /\ run.pc = "phiGen" =>
               \E u \in LabelDraws :
                  logs' = addLog(logs, <<"Selected phi - encrypted phi",
                                         RawPhi(u), aliceState'.phi>>)
         /\ run.pc = "phiDeliver" =>
               logs' = addLog(logs, <<"phi (encrypted) delivered to SKG/Bob",
                                      aliceState.phi>>)
         /\ run.pc = "complete" => logs' = addLog(logs, <<"Initialization complete">>)
         /\ run.pc \notin {"key", "phiBranch", "phiGen", "phiDeliver", "complete"} =>
               IsNull(sharedKey)
      ]_vars

\* a key of zeros drawn by a two-pulse run, its length logged
C31_Witness ==
    /\ qkdRunning /\ run.pc = "phiBranch" /\ run.N = 2
    /\ ~IsNull(sharedKey) /\ Val(sharedKey) = <<0, 0, 0, 0>>
    /\ logs[Len(logs)] = <<"Simulated shared key established (length bits)", 4>>

\* C32: channel notifications are purely observational: a call of
\* sendClassical, sendQuantum or sendPacket and the removal of a packet change
\* the packet list of one channel only and no engine state; a packet sent is
\* appended, exactly one, with content 'DATA', start 'left' and duration 2000
\* filled in where absent; a removal takes out exactly the packet of one id;
\* with the channel absent the notification is dropped.
C32_ChannelsObservational ==
    /\ [](\A ch \in {classicalOut, quantumOut} : \A k \in 1..Len(ch) :
             /\ ch[k].content # << >>
             /\ ch[k].start \in {"left", "right"}
             /\ ch[k].duration > 0
             /\ \A j \in 1..Len(ch) : ch[j].id = ch[k].id => j = k)
    /\ [][/\ UNCHANGED << running, engineVars, paramVars, run, sign >>
          /\ classicalOut' = classicalOut \/ quantumOut' = quantumOut
          /\ ~running => UNCHANGED channelVars
          /\ \A io \in {<<classicalOut, classicalOut'>>, <<quantumOut, quantumOut'>>} :
                LET old == io[1]
                    new == io[2]
                IN  /\ Len(new) > Len(old) =>
                          /\ Len(new) = Len(old) + 1
                          /\ SubSeq(new, 1, Len(old)) = old
                          /\ new[Len(new)].content \in
                                {<<"DATA">>, <<"ping">>, <<"Bases">>, <<"|P>">>}
                          /\ new[Len(new)].duration \in
                                {DefaultPacketDuration, 1000, pulseIntervalMs,
                                 SignPacketDuration}
                    /\ Len(new) < Len(old) =>
                          \E k \in 1..Len(old) :
                             /\ Len(new) = Len(old) - 1
                             /\ new = removePacket(old, old[k].id)
                             /\ \A j \in 1..Len(new) : new[j].id # old[k].id
                    /\ Len(new) = Len(old) => new = old
         ]_vars

\* a packet sent with no field given travels with the defaults, beside a
\* packet of sendQuantum
C32_Witness ==
    /\ running /\ Len(classicalOut) = 2 /\ Len(quantumOut) = 1
    /\ classicalOut[2].content = <<"DATA">> /\ classicalOut[2].start = "left"
    /\ classicalOut[2].duration = DefaultPacketDuration
    /\ classicalOut[2].color = "#1976d2"
    /\ quantumOut[1].content = <<"|P>">>

\* C33: a signature simulation returns the engine to Done: none of its steps,
\* from the click to the outcome, changes qkdDone, qkdRunning, sharedKey, the
\* phi tokens, Alice's and Bob's data, the sifted data, the sample, the QBER,
\* the tamper flag or the parameters (only the party texts, the status, the
\* log and signRunning change), so that after either outcome of a signature
\* on a Done engine signAndSend can be issued again.
C33_SignatureFrame ==
    [][sign'.pc # sign.pc =>
         /\ UNCHANGED << running, qkdDone, qkdRunning, noiseLocked, sharedKey, sifted,
                         revealedSample, qber, tampering, paramVars, run >>
         /\ [aliceState' EXCEPT !.text = << >>] = [aliceState EXCEPT !.text = << >>]
         /\ [bobState' EXCEPT !.text = << >>] = [bobState EXCEPT !.text = << >>]
         /\ signRunning' # signRunning => (sign.pc = "idle" \/ sign'.pc = "idle")
         /\ (sign'.pc = "idle" /\ running /\ qkdDone /\ ~qkdRunning) =>
               (~signRunning' /\ ~signAndSendReturns')
      ]_vars

\* a second signature started after an accepted one
C33_Witness ==
    /\ signRunning /\ sign.pc = "computing" /\ qkdDone /\ ~IsNull(sharedKey)
    /\ Len(logs) = 3
    /\ logs[1] = <<"Bob computed P matches received P - message accepted (simulated)">>

\* C34: the key derived by a run has length max(2*N, number of sifted pairs);
\* at most N pairs are sifted, so the length is exactly 2*N, N being the
\* number of pulses of the run that derived it, and every key character is 0
\* or 1.
C34_KeyLengthExact ==
    /\ [](run.pc \in {"privacyAmp", "key"} =>
            /\ Len(sifted.indices) <= run.N
            /\ Len(sifted.aliceBits) = Len(sifted.indices))
    /\ [][(run.pc = "key" /\ run'.pc # "key") =>
            /\ ~IsNull(sharedKey')
            /\ Len(Val(sharedKey')) = Max(2 * run.N, Len(sifted.indices))]_vars
    /\ [](~IsNull(sharedKey) =>
            /\ Len(Val(sharedKey)) = 2 * Len(aliceState.bits)
            /\ \A j \in 1..Len(Val(sharedKey)) : Val(sharedKey)[j] \in {0, 1})

\* a completed two-pulse run with both pulses sifted holds a key of four bits
C34_Witness ==
    /\ qkdDone /\ ~qkdRunning /\ ~IsNull(sharedKey)
    /\ Len(aliceState.bits) = 2 /\ Len(sifted.indices) = 2
    /\ Len(Val(sharedKey)) = 4

\* C35: in every reachable state, qkdDone implies that no run is active, that
\* sharedKey is non-null, and that Alice's and Bob's phi tokens are non-empty
\* and equal.
C35_DoneState ==
    qkdDone =>
        /\ ~qkdRunning
        /\ ~IsNull(sharedKey)
        /\ aliceState.phi # << >> /\ bobState.phi # << >>
        /\ aliceState.phi = bobState.phi

\* a Done engine in the middle of a signature
C35_Witness ==
    /\ qkdDone /\ signRunning /\ sign.pc = "verifying"
    /\ Len(aliceState.phi) = PhiTokenLen /\ bobState.phi = aliceState.phi
    /\ ~IsNull(sharedKey)

\* C36: the tamper flag is sticky: once engaged it is cleared by no step but
\* stop (entering the simulation from the menu finds it cleared already), so
\* it stays set through runs and signature simulations; a run reads the flag
\* it was started with, and no run started while it is set sets qkdDone to
\* true.
C36_TamperSticky ==
    /\ [](~running => ~tampering)
    /\ [](qkdRunning => (run.tampering = tampering /\ (tampering => ~qkdDone)))
    /\ [][/\ (tampering /\ ~tampering') => (running /\ ~running')
          /\ (~qkdRunning /\ qkdRunning') => run'.tampering = tampering
          /\ (~qkdDone /\ qkdDone') => (qkdRunning /\ ~run.tampering /\ ~tampering)
         ]_vars

\* a tampered run was aborted and the flag is still set
C36_Witness ==
    /\ tampering /\ running /\ ~qkdRunning /\ ~qkdDone /\ IsNull(sharedKey)
    /\ currentStatus = <<"Eavesdrop detected - aborting initialization">>

\* C37: every started signature simulation terminates: once signRunning is
\* true, the signature's continuations being executed when their delays
\* elapse, signRunning becomes false again, on the tamper-detected and on the
\* accepted path, whatever run, stop or tamper actions interleave.
C37_SignatureTerminates == signRunning ~> ~signRunning

\* a signature that ended, accepted, after the engine was stopped under it
C37_Witness ==
    /\ ~signRunning /\ sign.pc = "idle" /\ ~running
    /\ currentStatus = <<"Signature accepted by SKG/Bob">>

\* C38: in the earlier runQKDDemo flow, the sample step of an activation
\* reveals the first sampleCount sifted indices of that same run, with
\* Alice's and Bob's bits of that run at those indices, so the sample is
\* non-empty whenever the run kept at least one sifted bit.
C38_SampleOfCurrentRun ==
    [][\A k \in 1..Len(run) :
          (run[k].pc = "sample" /\ Len(run') = Len(run) /\ run'[k].pc # "sample")
          => LET s == Sift(DemoN, run[k].aliceBits, run[k].aliceBases,
                           run[k].bobBases, run[k].bobResults)
                 idx == DemoSampleIndices(s.indices)
             IN  /\ revealedSample' =
                       [j \in 1..Len(idx) |->
                          [index |-> idx[j], alice |-> run[k].aliceBits[idx[j] + 1],
                           bob |-> run[k].bobResults[idx[j] + 1]]]
                 /\ (Len(s.indices) >= 1 => revealedSample' # << >>)]_vars

====
